---- MODULE Spec2Model ----
(***************************************************************************)
(* Sparse-set component storage, group families and query iteration of     *)
(* the sparsey ECS core.                                                    *)
(*                                                                          *)
(* Vectors are 0-based functions (domain 0..n-1), as the code indexes them. *)
(* Bitmasks (StorageMask, GroupMask) are the sets of their set bits.        *)
(* Option<T> is a sequence of length 0 (None) or 1 (Some).                  *)
(***************************************************************************)
EXTENDS Integers, Sequences, FiniteSets, TLC

VARIABLES
    layout,      \* the GroupLayout the storage was built from
    groups,      \* ComponentStorage::groups      : Vec<Group>
    metadata,    \* ComponentStorage::metadata    : TypeId -> ComponentMetadata
    components,  \* ComponentStorage::components  : Vec<ComponentSparseSet>
    tick,        \* world tick used to stamp inserted components
    last,        \* the last call made on the storage: its name, its entity and
                 \* how many of the types it named the entity carried before it
    world_entities, \* World::entities : EntityStorage
    cells,       \* the borrow state of the AtomicRefCell around each sparse set
    held_views   \* the live Comp<T> and CompMut<T> views, counted per type

vars == <<layout, groups, metadata, components, tick, last, world_entities, cells, held_views>>

----------------------------------------------------------------------------
(* Bounds of the model *)

\* entity indexes are 0..MaxIndex-1
MaxIndex == 2
\* entity versions (generations) are 1..MaxVersion
MaxVersion == 2
\* the world tick is 1..MaxTick
MaxTick == 2
\* at most MaxShared shared views of one type are held at a time
MaxShared == 2
\* component values are 1..MaxValue
MaxValue == 1

Types == {"A", "B", "C", "D"}

\* Version::FIRST
VersionFirst == 1

\* Version::LAST, the largest version; the code's is 2^32 - 1, the model's is
\* the largest integer it can hold
VersionLast == 2147483647

\* Version::next that wraps around to the first version
VersionNextWrapping(version) ==
    IF version = VersionLast THEN <<VersionFirst>> ELSE <<version + 1>>

\* Version::next(): checked_add(1), None after the last version
VersionNext(version) ==
    IF version = VersionLast THEN << >> ELSE <<version + 1>>

\* Entity::new(index, version)
EntityNew(index, version) == [index |-> index, version |-> version]

\* Entity::with_index(index): the entity of an index at its first version
EntityWithIndex(index) == EntityNew(index, VersionFirst)

Entities == {EntityNew(i, v) : i \in 0..(MaxIndex - 1), v \in 1..MaxVersion}

FirstEntities == {EntityWithIndex(i) : i \in 0..(MaxIndex - 1)}

Values == 1..MaxValue

\* the tuples of component types a call may name: (T,) and (T, U)
TypeOrder == <<"A", "B", "C", "D">>

Tuples ==
    {<<t>> : t \in Types} \cup
    {<<TypeOrder[p[1]], TypeOrder[p[2]]>> :
        p \in {q \in (1..Len(TypeOrder)) \X (1..Len(TypeOrder)) : q[1] < q[2]}}

\* the layouts a storage is built from: one family with a one-type subgroup
\* delta, two families, one family with a two-type subgroup delta
Layouts ==
    { << [components |-> <<"A", "B", "C">>, arities |-> <<2, 3>>] >>,
      << [components |-> <<"A", "B">>, arities |-> <<2>>],
         [components |-> <<"C", "D">>, arities |-> <<2>>] >>,
      << [components |-> <<"A", "B", "C", "D">>, arities |-> <<2, 4>>] >> }

----------------------------------------------------------------------------
(* Option and Vec helpers *)

None == << >>

Some(x) == <<x>>

IsSome(o) == o # None

Unwrap(o) == o[1]

VecLen(v) == Cardinality(DOMAIN v)

VecPush(v, x) == [i \in 0..VecLen(v) |-> IF i < VecLen(v) THEN v[i] ELSE x]

VecPop(v) == [i \in 0..(VecLen(v) - 2) |-> v[i]]

VecSwap(v, a, b) == [v EXCEPT ![a] = v[b], ![b] = v[a]]

EmptyVec == [i \in {} |-> 0]

----------------------------------------------------------------------------
(* Masks *)

\* StorageMask::single(index): the one-hot mask of a storage slot of a family
StorageMaskSingle(index) == {index}

\* GroupMask::from_to(from, to): the bits from..to-1
GroupMaskFromTo(from, to) == from..(to - 1)

\* GroupMask::skip_from_to(from, to): the mask that, and-ed into a group mask,
\* clears the bits from..to-1; kept as the set of bits it clears
GroupMaskSkipFromTo(from, to) == from..(to - 1)

\* QueryMask::include(arity): the first `arity` slots present, none absent
QueryMaskInclude(arity) == [include |-> 0..(arity - 1), exclude |-> {}]

\* QueryMask::exclude(prev_arity, arity): the parent's slots present, the
\* slots this group adds absent
QueryMaskExclude(prev_arity, arity) ==
    [include |-> 0..(prev_arity - 1), exclude |-> prev_arity..(arity - 1)]

----------------------------------------------------------------------------
(* Sparse vec and component sparse set *)

\* ComponentSparseSet::new
EmptySparseSet ==
    [sparse   |-> [i \in 0..(MaxIndex - 1) |-> None],
     entities |-> EmptyVec,
     data     |-> EmptyVec,
     ticks    |-> EmptyVec]

\* SparseVec::get(index, gen): the dense index, only if the generation matches
SparseGet(set, entity) ==
    LET slot == set.sparse[entity.index] IN
    IF IsSome(slot) /\ Unwrap(slot).version = entity.version
    THEN Some(Unwrap(slot).dense)
    ELSE None

\* SparseVec::contains(entity)
SparseContains(set, entity) == IsSome(SparseGet(set, entity))

\* SparseVec::contains_sparse(index): occupied whatever the generation
SparseContainsIndex(set, index) == IsSome(set.sparse[index])

SparseSetLen(set) == VecLen(set.entities)

\* ComponentSparseSet::get(entity) -> Option<&T>
SparseSetGet(set, entity) ==
    LET got == SparseGet(set, entity) IN
    IF got = None THEN None ELSE Some(set.data[Unwrap(got)])

\* ComponentSparseSet::get_mut(entity) -> Option<MutRef>, the reference
\* written through at tick t: [set, ret]
SparseSetGetMut(set, entity, t) ==
    LET got == SparseGet(set, entity) IN
    IF got = None
    THEN [set |-> set, ret |-> None]
    ELSE [set |-> [set EXCEPT !.ticks[Unwrap(got)].changed = t],
          ret |-> Some(set.data[Unwrap(got)])]

\* get_index_from_sparse that looks the index up whatever its generation
GetIndexFromSparseAnyVersion(set, entity) ==
    IF IsSome(set.sparse[entity.index])
    THEN Some(Unwrap(set.sparse[entity.index]).dense)
    ELSE None

\* GetComponentSet::get_index_from_sparse(sparse, entity):
\* sparse.get_entity(entity).map(|e| e.dense())
GetIndexFromSparse(set, entity) == SparseGet(set, entity)

\* Query::includes_split(sparse, entity): sparse.contains(entity)
IncludesSplit(set, entity) == SparseContains(set, entity)

\* Query::get_index_from_split(sparse, entity): sparse.get(entity)
GetIndexFromSplit(set, entity) == SparseGet(set, entity)

\* SparseSetInsert with the generation check dropped from the absence test:
\* an id whose index is held under another generation is appended
SparseSetInsertAppendStale(set, entity, value, t) ==
    LET got == SparseGet(set, entity) IN
    IF got = None
    THEN [set |-> [sparse   |-> [set.sparse EXCEPT ![entity.index] =
                                    Some([dense |-> SparseSetLen(set),
                                          version |-> entity.version])],
                   entities |-> VecPush(set.entities, entity),
                   data     |-> VecPush(set.data, value),
                   ticks    |-> VecPush(set.ticks, [added |-> t, changed |-> t])],
          ret |-> None]
    ELSE LET d == Unwrap(got) IN
         [set |-> [set EXCEPT !.data[d] = value, !.ticks[d].changed = t],
          ret |-> Some(set.data[d])]

\* ComponentSparseSet::insert(entity, value, tick) -> Option<value>.
\* Result: [set, ret].  An id whose generation differs from the one stored
\* for its index is refused.
SparseSetInsert(set, entity, value, t) ==
    LET slot == set.sparse[entity.index] IN
    IF slot = None
    THEN [set |-> [sparse   |-> [set.sparse EXCEPT ![entity.index] =
                                    Some([dense |-> SparseSetLen(set),
                                          version |-> entity.version])],
                   entities |-> VecPush(set.entities, entity),
                   data     |-> VecPush(set.data, value),
                   ticks    |-> VecPush(set.ticks, [added |-> t, changed |-> t])],
          ret |-> None]
    ELSE IF Unwrap(slot).version = entity.version
    THEN LET d == Unwrap(slot).dense IN
         [set |-> [set EXCEPT !.data[d] = value, !.ticks[d].changed = t],
          ret |-> Some(set.data[d])]
    ELSE [set |-> set, ret |-> None]

\* SparseSetRemove that forgets the sparse entry of the moved tail entity
SparseSetRemoveTailNotFixed(set, entity) ==
    LET got == SparseGet(set, entity) IN
    IF got = None
    THEN [set |-> set, ret |-> None]
    ELSE LET d    == Unwrap(got)
             tail == SparseSetLen(set) - 1
         IN  [set |-> [sparse   |-> [set.sparse EXCEPT ![entity.index] = None],
                       entities |-> VecPop([set.entities EXCEPT ![d] = set.entities[tail]]),
                       data     |-> VecPop([set.data EXCEPT ![d] = set.data[tail]]),
                       ticks    |-> VecPop([set.ticks EXCEPT ![d] = set.ticks[tail]])],
              ret |-> Some(set.data[d])]

\* ComponentSparseSet::remove(entity) -> Option<value>: swap-remove, fix the
\* sparse entry of the moved tail entity, clear this entity's sparse entry.
SparseSetRemove(set, entity) ==
    LET got == SparseGet(set, entity) IN
    IF got = None
    THEN [set |-> set, ret |-> None]
    ELSE LET d     == Unwrap(got)
             tail  == SparseSetLen(set) - 1
             moved == set.entities[tail]
             fixed == [set.sparse EXCEPT
                          ![moved.index] = Some([dense |-> d, version |-> moved.version])]
         IN  [set |-> [sparse   |-> [fixed EXCEPT ![entity.index] = None],
                       entities |-> VecPop([set.entities EXCEPT ![d] = set.entities[tail]]),
                       data     |-> VecPop([set.data EXCEPT ![d] = set.data[tail]]),
                       ticks    |-> VecPop([set.ticks EXCEPT ![d] = set.ticks[tail]])],
              ret |-> Some(set.data[d])]

\* ComponentSparseSet::delete(entity) -> bool: as remove, the value dropped
SparseSetDelete(set, entity) ==
    LET r == SparseSetRemove(set, entity) IN
    [set |-> r.set, ret |-> IsSome(r.ret)]

\* ComponentSparseSet::swap(a, b): swap two dense positions (entities, data
\* and ticks) and fix both sparse entries
SparseSetSwap(set, a, b) ==
    LET ea == set.entities[a]
        eb == set.entities[b]
    IN  [sparse   |-> [set.sparse EXCEPT
                          ![ea.index] = Some([dense |-> b, version |-> ea.version]),
                          ![eb.index] = Some([dense |-> a, version |-> eb.version])],
         entities |-> VecSwap(set.entities, a, b),
         data     |-> VecSwap(set.data, a, b),
         ticks    |-> VecSwap(set.ticks, a, b)]

----------------------------------------------------------------------------
(* ComponentStorage::new *)

\* the inner loop of ComponentStorage::new: one metadata entry and one sparse
\* set per storage slot prev_arity..arity-1 that the group adds
RECURSIVE NewGroupStorages(_, _, _, _, _, _, _)
NewGroupStorages(st, family, local_storage_index, arity, group_start, new_group_start, group_end) ==
    IF local_storage_index >= arity
    THEN st
    ELSE LET component == family.components[local_storage_index + 1]
             entry == [storage_index |-> VecLen(st.components),
                       insert_mask   |-> GroupMaskFromTo(group_start, group_end),
                       delete_mask   |-> GroupMaskFromTo(new_group_start, group_end),
                       group_end     |-> VecLen(st.groups),
                       storage_mask  |-> StorageMaskSingle(local_storage_index)]
         IN  NewGroupStorages(
                 [st EXCEPT !.metadata   = (component :> entry) @@ st.metadata,
                            !.components = VecPush(st.components, EmptySparseSet)],
                 family, local_storage_index + 1, arity,
                 group_start, new_group_start, group_end)

\* the loop over the arities whose exclude mask always excludes the group's
\* last slot alone, the first group's as well
RECURSIVE NewFamilyGroupsExcludeLast(_, _, _, _, _, _, _)
NewFamilyGroupsExcludeLast(st, family, k, prev_arity, storage_start, group_start, group_end) ==
    IF k > Len(family.arities)
    THEN st
    ELSE LET arity           == family.arities[k]
             storage_end     == storage_start + arity
             new_group_start == VecLen(st.groups)
             group == [metadata |->
                          [storage_start     |-> storage_start,
                           new_storage_start |-> storage_start + prev_arity,
                           storage_end       |-> storage_end,
                           skip_mask    |-> GroupMaskSkipFromTo(new_group_start, group_end),
                           include_mask |-> QueryMaskInclude(arity),
                           exclude_mask |-> QueryMaskExclude(arity - 1, arity)],
                       len |-> 0]
             pushed == [st EXCEPT !.groups = VecPush(st.groups, group)]
         IN  NewFamilyGroupsExcludeLast(
                 NewGroupStorages(pushed, family, prev_arity, arity,
                                  group_start, new_group_start, group_end),
                 family, k + 1, arity, storage_start, group_start, group_end)

\* the loop over the arities whose skip mask reaches past the family's last
\* group, over the groups of the families after it
RECURSIVE NewFamilyGroupsSkipPast(_, _, _, _, _, _, _)
NewFamilyGroupsSkipPast(st, family, k, prev_arity, storage_start, group_start, group_end) ==
    IF k > Len(family.arities)
    THEN st
    ELSE LET arity           == family.arities[k]
             storage_end     == storage_start + arity
             new_group_start == VecLen(st.groups)
             group == [metadata |->
                          [storage_start     |-> storage_start,
                           new_storage_start |-> storage_start + prev_arity,
                           storage_end       |-> storage_end,
                           skip_mask    |-> GroupMaskSkipFromTo(new_group_start,
                                                                group_end + Len(TypeOrder)),
                           include_mask |-> QueryMaskInclude(arity),
                           exclude_mask |-> QueryMaskExclude(prev_arity, arity)],
                       len |-> 0]
             pushed == [st EXCEPT !.groups = VecPush(st.groups, group)]
         IN  NewFamilyGroupsSkipPast(
                 NewGroupStorages(pushed, family, prev_arity, arity,
                                  group_start, new_group_start, group_end),
                 family, k + 1, arity, storage_start, group_start, group_end)

\* the loop over the arities of one family: one Group per arity
RECURSIVE NewFamilyGroups(_, _, _, _, _, _, _)
NewFamilyGroups(st, family, k, prev_arity, storage_start, group_start, group_end) ==
    IF k > Len(family.arities)
    THEN st
    ELSE LET arity           == family.arities[k]
             storage_end     == storage_start + arity
             new_group_start == VecLen(st.groups)
             group == [metadata |->
                          [storage_start     |-> storage_start,
                           new_storage_start |-> storage_start + prev_arity,
                           storage_end       |-> storage_end,
                           skip_mask    |-> GroupMaskSkipFromTo(new_group_start, group_end),
                           include_mask |-> QueryMaskInclude(arity),
                           exclude_mask |-> QueryMaskExclude(prev_arity, arity)],
                       len |-> 0]
             pushed == [st EXCEPT !.groups = VecPush(st.groups, group)]
         IN  NewFamilyGroups(
                 NewGroupStorages(pushed, family, prev_arity, arity,
                                  group_start, new_group_start, group_end),
                 family, k + 1, arity, storage_start, group_start, group_end)

\* the loop over the families that starts every family at storage 0, so the
\* groups of two families range over the same sparse sets
RECURSIVE NewFamiliesSharedStart(_, _, _)
NewFamiliesSharedStart(st, families, f) ==
    IF f > Len(families)
    THEN st
    ELSE LET family      == families[f]
             group_start == VecLen(st.groups)
         IN  NewFamiliesSharedStart(
                 NewFamilyGroups(st, family, 1, 0, 0,
                                 group_start, group_start + Len(family.arities)),
                 families, f + 1)

\* the loop over the families of the layout
RECURSIVE NewFamilies(_, _, _)
NewFamilies(st, families, f) ==
    IF f > Len(families)
    THEN st
    ELSE LET family      == families[f]
             group_start == VecLen(st.groups)
         IN  NewFamilies(
                 NewFamilyGroups(st, family, 1, 0, VecLen(st.components),
                                 group_start, group_start + Len(family.arities)),
                 families, f + 1)

\* ComponentStorage::new(layout)
ComponentStorageNew(l) ==
    NewFamilies([groups |-> EmptyVec, metadata |-> EmptyVec, components |-> EmptyVec],
                l, 1)

\* ComponentStorage::is_registered
IsRegistered(md, T) == T \in DOMAIN md

\* register<T> that pushes a fresh set even when T is already known
ComponentStorageRegisterAgain(md, comps, T) ==
    [metadata |-> (T :> [storage_index |-> VecLen(comps),
                         insert_mask   |-> {},
                         delete_mask   |-> {},
                         group_end     |-> 0,
                         storage_mask  |-> {}]) @@
                  [U \in DOMAIN md \ {T} |-> md[U]],
     components |-> VecPush(comps, EmptySparseSet),
     ret |-> ~IsRegistered(md, T)]

\* ComponentStorage::register<T>: [metadata, components, ret]
ComponentStorageRegister(md, comps, T) ==
    IF IsRegistered(md, T)
    THEN [metadata |-> md, components |-> comps, ret |-> FALSE]
    ELSE [metadata |-> (T :> [storage_index |-> VecLen(comps),
                              insert_mask   |-> {},
                              delete_mask   |-> {},
                              group_end     |-> 0,
                              storage_mask  |-> {}]) @@ md,
          components |-> VecPush(comps, EmptySparseSet),
          ret |-> TRUE]

----------------------------------------------------------------------------
(* Group and ungroup passes *)

GroupStorages(g) == g.metadata.storage_start..(g.metadata.storage_end - 1)

\* the entity is present in every storage of the group
HasAllOf(comps, g, entity) ==
    \A s \in GroupStorages(g) : SparseContains(comps[s], entity)

\* swap the entity to dense position `to` in every storage of the group
SwapToIn(comps, g, entity, to) ==
    [s \in DOMAIN comps |->
        IF s \in GroupStorages(g)
        THEN SparseSetSwap(comps[s], Unwrap(SparseGet(comps[s], entity)), to)
        ELSE comps[s]]

\* group(components, groups, group_mask, entity): the groups of the mask from
\* the first to the last; a group the entity does not match clears the rest
\* of its family from the mask
RECURSIVE GroupFrom(_, _, _, _, _)
GroupFrom(comps, grps, group_mask, entity, i) ==
    IF i >= VecLen(grps)
    THEN [components |-> comps, groups |-> grps]
    ELSE IF i \notin group_mask
    THEN GroupFrom(comps, grps, group_mask, entity, i + 1)
    ELSE LET g == grps[i] IN
         IF ~HasAllOf(comps, g, entity)
         THEN GroupFrom(comps, grps, group_mask \ g.metadata.skip_mask, entity, i + 1)
         ELSE IF \A s \in GroupStorages(g) :
                     Unwrap(SparseGet(comps[s], entity)) >= g.len
         THEN GroupFrom(SwapToIn(comps, g, entity, g.len),
                        [grps EXCEPT ![i].len = g.len + 1],
                        group_mask, entity, i + 1)
         ELSE GroupFrom(comps, grps, group_mask, entity, i + 1)

Group(comps, grps, group_mask, entity) == GroupFrom(comps, grps, group_mask, entity, 0)

\* ungroup(components, groups, group_mask, entity): the groups of the mask
\* from the last to the first; an entity inside a group is swapped to the
\* group's last position and the group shrinks by one
RECURSIVE UngroupFrom(_, _, _, _, _)
UngroupFrom(comps, grps, group_mask, entity, i) ==
    IF i < 0
    THEN [components |-> comps, groups |-> grps]
    ELSE IF i \notin group_mask
    THEN UngroupFrom(comps, grps, group_mask, entity, i - 1)
    ELSE LET g == grps[i] IN
         IF /\ HasAllOf(comps, g, entity)
            /\ \A s \in GroupStorages(g) :
                   Unwrap(SparseGet(comps[s], entity)) < g.len
         THEN UngroupFrom(SwapToIn(comps, g, entity, g.len - 1),
                          [grps EXCEPT ![i].len = g.len - 1],
                          group_mask, entity, i - 1)
         ELSE UngroupFrom(comps, grps, group_mask, entity, i - 1)

Ungroup(comps, grps, group_mask, entity) ==
    UngroupFrom(comps, grps, group_mask, entity, VecLen(grps) - 1)

\* ungroup_all(components, groups, entity): ungroup from every group
UngroupAll(comps, grps, entity) == Ungroup(comps, grps, DOMAIN grps, entity)

----------------------------------------------------------------------------
(* ComponentSet for tuples: insert, remove, delete *)

\* the first position of the tuple whose type has no metadata (0 if none):
\* where panic_missing_comp is raised
FirstMissing(md, tuple) ==
    IF \A k \in DOMAIN tuple : IsRegistered(md, tuple[k])
    THEN 0
    ELSE CHOOSE k \in DOMAIN tuple :
             /\ ~IsRegistered(md, tuple[k])
             /\ \A j \in 1..(k - 1) : IsRegistered(md, tuple[j])

\* InsertEach that replaces a component by removing it and inserting the new
\* one: the previous value is returned, the slot is a fresh one
RECURSIVE InsertEachReplacing(_, _, _, _, _, _, _, _)
InsertEachReplacing(md, acc, entity, tuple, value, t, k, upto) ==
    IF k > upto
    THEN acc
    ELSE LET m == md[tuple[k]]
             old == SparseSetRemove(acc.components[m.storage_index], entity)
             r == SparseSetInsert(old.set, entity, value, t)
         IN  InsertEachReplacing(md,
                        [components |-> [acc.components EXCEPT ![m.storage_index] = r.set],
                         group_mask |-> acc.group_mask \cup m.insert_mask,
                         ret        |-> Append(acc.ret, old.ret)],
                        entity, tuple, value, t, k + 1, upto)

\* the per-type block of ComponentSet::insert, for positions k..upto of the
\* tuple: or the type's insert_mask into the group mask, insert into its set
RECURSIVE InsertEach(_, _, _, _, _, _, _, _)
InsertEach(md, acc, entity, tuple, value, t, k, upto) ==
    IF k > upto
    THEN acc
    ELSE LET m == md[tuple[k]]
             r == SparseSetInsert(acc.components[m.storage_index], entity, value, t)
         IN  InsertEach(md,
                        [components |-> [acc.components EXCEPT ![m.storage_index] = r.set],
                         group_mask |-> acc.group_mask \cup m.insert_mask,
                         ret        |-> Append(acc.ret, r.ret)],
                        entity, tuple, value, t, k + 1, upto)

\* ComponentSetInsert that returns after the sparse-set inserts, the group
\* pass never run
ComponentSetInsertNoGroup(md, comps, grps, entity, tuple, value, t) ==
    LET missing == FirstMissing(md, tuple)
        upto    == IF missing = 0 THEN Len(tuple) ELSE missing - 1
        each    == InsertEach(md, [components |-> comps, group_mask |-> {}, ret |-> << >>],
                              entity, tuple, value, t, 1, upto)
    IN  [components |-> each.components, groups |-> grps,
         ret |-> each.ret, panicked |-> missing # 0]

\* ComponentSet::insert(storage, entity, components):
\* [components, groups, ret, panicked]; ret holds what each sparse-set insert
\* returned.  A missing type panics at its position: the types before it are
\* already inserted and the group pass is not run.
ComponentSetInsert(md, comps, grps, entity, tuple, value, t) ==
    LET missing == FirstMissing(md, tuple)
        upto    == IF missing = 0 THEN Len(tuple) ELSE missing - 1
        each    == InsertEach(md, [components |-> comps, group_mask |-> {}, ret |-> << >>],
                              entity, tuple, value, t, 1, upto)
    IN  IF missing # 0
        THEN [components |-> each.components, groups |-> grps,
              ret |-> each.ret, panicked |-> TRUE]
        ELSE LET grouped == Group(each.components, grps, each.group_mask, entity)
             IN  [components |-> grouped.components, groups |-> grouped.groups,
                  ret |-> each.ret, panicked |-> FALSE]

\* DeleteGroupMask built from the insert masks: every group of the family
\* of each type, the smaller ones included
DeleteGroupMaskWholeFamily(md, tuple) ==
    UNION {md[tuple[k]].insert_mask : k \in DOMAIN tuple}

\* the group mask of ComponentSet::remove / delete: the union of delete_masks
DeleteGroupMask(md, tuple) ==
    UNION {md[tuple[k]].delete_mask : k \in DOMAIN tuple}

\* RemoveEach that reads each value and leaves it in its sparse set
RECURSIVE RemoveEachValueKept(_, _, _, _, _)
RemoveEachValueKept(md, acc, entity, tuple, k) ==
    IF k > Len(tuple)
    THEN acc
    ELSE LET index == md[tuple[k]].storage_index
             r == SparseSetRemove(acc.components[index], entity)
         IN  RemoveEachValueKept(md,
                                 [components |-> acc.components,
                                  ret        |-> Append(acc.ret, r.ret)],
                                 entity, tuple, k + 1)

\* the per-type swap-removes of ComponentSet::remove, in tuple order
RECURSIVE RemoveEach(_, _, _, _, _)
RemoveEach(md, acc, entity, tuple, k) ==
    IF k > Len(tuple)
    THEN acc
    ELSE LET index == md[tuple[k]].storage_index
             r == SparseSetRemove(acc.components[index], entity)
         IN  RemoveEach(md,
                        [components |-> [acc.components EXCEPT ![index] = r.set],
                         ret        |-> Append(acc.ret, r.ret)],
                        entity, tuple, k + 1)

\* ComponentSetRemove whose ungroup pass leaves the groups' lengths as they
\* were: the entity is swapped out of place but still counted
ComponentSetRemoveLenKept(md, comps, grps, entity, tuple) ==
    IF FirstMissing(md, tuple) # 0
    THEN [components |-> comps, groups |-> grps, ret |-> << >>, panicked |-> TRUE]
    ELSE LET ungrouped == Ungroup(comps, grps, DeleteGroupMask(md, tuple), entity)
             each == RemoveEach(md, [components |-> ungrouped.components, ret |-> << >>],
                                entity, tuple, 1)
         IN  [components |-> each.components, groups |-> grps,
              ret |-> each.ret, panicked |-> FALSE]

\* ComponentSetRemove that returns the values only if the entity carried
\* every type of the tuple, and None for each type otherwise
ComponentSetRemoveAllOrNone(md, comps, grps, entity, tuple) ==
    IF FirstMissing(md, tuple) # 0
    THEN [components |-> comps, groups |-> grps, ret |-> << >>, panicked |-> TRUE]
    ELSE LET ungrouped == Ungroup(comps, grps, DeleteGroupMask(md, tuple), entity)
             each == RemoveEach(md, [components |-> ungrouped.components, ret |-> << >>],
                                entity, tuple, 1)
         IN  [components |-> each.components, groups |-> ungrouped.groups,
              ret |-> IF \A k \in DOMAIN each.ret : IsSome(each.ret[k])
                      THEN each.ret
                      ELSE [k \in DOMAIN each.ret |-> None],
              panicked |-> FALSE]

\* ComponentSet::remove(storage, entity) -> (Option<A>, ...):
\* every metadata lookup comes first, so a missing type panics before any
\* change; then one ungroup pass, then the swap-removes
ComponentSetRemove(md, comps, grps, entity, tuple) ==
    IF FirstMissing(md, tuple) # 0
    THEN [components |-> comps, groups |-> grps, ret |-> << >>, panicked |-> TRUE]
    ELSE LET ungrouped == Ungroup(comps, grps, DeleteGroupMask(md, tuple), entity)
             each == RemoveEach(md, [components |-> ungrouped.components, ret |-> << >>],
                                entity, tuple, 1)
         IN  [components |-> each.components, groups |-> ungrouped.groups,
              ret |-> each.ret, panicked |-> FALSE]

\* ComponentSet::remove that swap-removes first and runs the ungroup pass on
\* what is left
ComponentSetRemovePointRemoveFirst(md, comps, grps, entity, tuple, j, k) ==
    LET each == RemoveEach(md, [components |-> comps, ret |-> << >>],
                           entity, SubSeq(tuple, 1, k), 1)
        ungrouped == Ungroup(each.components, grps,
                             DeleteGroupMask(md, tuple) \cap j..(VecLen(grps) - 1), entity)
    IN  [components |-> ungrouped.components, groups |-> ungrouped.groups]

\* ComponentSet::remove / delete stopped part-way: the ungroup pass has
\* walked the groups down to j, then the first k types of the tuple are
\* swap-removed
ComponentSetRemovePoint(md, comps, grps, entity, tuple, j, k) ==
    LET ungrouped == Ungroup(comps, grps,
                             DeleteGroupMask(md, tuple) \cap j..(VecLen(grps) - 1), entity)
        each == RemoveEach(md, [components |-> ungrouped.components, ret |-> << >>],
                           entity, SubSeq(tuple, 1, k), 1)
    IN  [components |-> each.components, groups |-> ungrouped.groups]

\* ComponentSet::insert stopped part-way: the first k types of the tuple are
\* inserted, then the group pass has walked the groups below j
ComponentSetInsertPoint(md, comps, grps, entity, tuple, value, t, k, j) ==
    LET each == InsertEach(md, [components |-> comps, group_mask |-> {}, ret |-> << >>],
                           entity, tuple, value, t, 1, k)
        grouped == Group(each.components, grps, each.group_mask \cap 0..(j - 1), entity)
    IN  [components |-> grouped.components, groups |-> grouped.groups]

\* ComponentSet::delete(storage, entity): as remove, the values dropped
ComponentSetDelete(md, comps, grps, entity, tuple) ==
    LET r == ComponentSetRemove(md, comps, grps, entity, tuple) IN
    [components |-> r.components, groups |-> r.groups,
     ret |-> << >>, panicked |-> r.panicked]

\* ComponentStorage::delete_all(entity): ungroup_all, then delete_dyn on
\* every sparse set
ComponentStorageDeleteAll(comps, grps, entity) ==
    LET ungrouped == UngroupAll(comps, grps, entity) IN
    [components |-> [s \in DOMAIN comps |->
                        SparseSetDelete(ungrouped.components[s], entity).set],
     groups |-> ungrouped.groups]

----------------------------------------------------------------------------
(* The entity allocator and the cell around each sparse set *)

\* EntityStorage::default(): no index is in use; the first entity of an
\* index has the first version
EntityStorageDefault ==
    [index \in 0..(MaxIndex - 1) |->
        [version |-> VersionFirst, alive |-> FALSE, retired |-> FALSE]]

\* EntityStorage::contains(entity): the index is in use under this version
EntityStorageContains(es, entity) ==
    /\ es[entity.index].alive
    /\ es[entity.index].version = entity.version

\* the indexes EntityStorage::create() may hand out
FreeIndexes(es) ==
    {index \in DOMAIN es :
        /\ ~es[index].alive
        /\ ~es[index].retired
        /\ es[index].version <= MaxVersion \/ es[index].version >= VersionLast - 1}

\* EntityStorage::create() handing out `index`: [entities, ret]
EntityStorageCreate(es, index) ==
    [entities |-> [es EXCEPT ![index].alive = TRUE],
     ret      |-> EntityNew(index, es[index].version)]

\* EntityStorage::destroy(entity) -> bool: [entities, ret].  A destroyed
\* index moves to its next version, so the destroyed id is stale; an index
\* whose version has no next one is not handed out again.
EntityStorageDestroy(es, entity) ==
    IF EntityStorageContains(es, entity)
    THEN LET next == VersionNext(entity.version) IN
         [entities |-> [es EXCEPT ![entity.index] =
                           IF next = << >>
                           THEN [version |-> entity.version, alive |-> FALSE, retired |-> TRUE]
                           ELSE [version |-> next[1], alive |-> FALSE, retired |-> FALSE]],
          ret |-> TRUE]
    ELSE [entities |-> es, ret |-> FALSE]

\* AtomicRefCell::new: no shared borrow, no exclusive borrow
AtomicRefCellNew == [shared |-> 0, exclusive |-> FALSE]

\* AtomicRefCell::borrow(): refused while the cell is exclusively borrowed
AtomicRefCellBorrow(cell) ==
    IF cell.exclusive
    THEN [cell |-> cell, ok |-> FALSE]
    ELSE [cell |-> [cell EXCEPT !.shared = @ + 1], ok |-> TRUE]

\* AtomicRefCell::borrow_mut(): refused while the cell is borrowed at all
AtomicRefCellBorrowMut(cell) ==
    IF cell.exclusive \/ cell.shared > 0
    THEN [cell |-> cell, ok |-> FALSE]
    ELSE [cell |-> [cell EXCEPT !.exclusive = TRUE], ok |-> TRUE]

\* drop of an AtomicRef / of an AtomicRefMut
AtomicRefDrop(cell) == [cell EXCEPT !.shared = @ - 1]
AtomicRefMutDrop(cell) == [cell EXCEPT !.exclusive = FALSE]

\* ComponentStorageBorrow that hands an unregistered type a view of the
\* first sparse set
ComponentStorageBorrowFirstSet(md, cls, vws, T) ==
    LET index == IF IsRegistered(md, T) THEN md[T].storage_index ELSE 0
        b     == AtomicRefCellBorrow(cls[index])
    IN  IF ~b.ok
        THEN [cells |-> cls, views |-> vws, ret |-> "BorrowConflict"]
        ELSE [cells |-> [cls EXCEPT ![index] = b.cell],
              views |-> [vws EXCEPT ![T].comp = @ + 1],
              ret   |-> "Ok"]

\* ComponentStorage::borrow<T>() -> Comp<T>: [cells, views, ret].  An
\* unregistered type panics before any cell is touched; a cell that refuses
\* panics at the call.
ComponentStorageBorrow(md, cls, vws, T) ==
    IF ~IsRegistered(md, T)
    THEN [cells |-> cls, views |-> vws, ret |-> "MissingComponent"]
    ELSE LET b == AtomicRefCellBorrow(cls[md[T].storage_index]) IN
         IF ~b.ok
         THEN [cells |-> cls, views |-> vws, ret |-> "BorrowConflict"]
         ELSE [cells |-> [cls EXCEPT ![md[T].storage_index] = b.cell],
               views |-> [vws EXCEPT ![T].comp = @ + 1],
               ret   |-> "Ok"]

\* ComponentStorageBorrowMut that asks the cell for a shared borrow
ComponentStorageBorrowMutShared(md, cls, vws, T) ==
    IF ~IsRegistered(md, T)
    THEN [cells |-> cls, views |-> vws, ret |-> "MissingComponent"]
    ELSE LET b == AtomicRefCellBorrow(cls[md[T].storage_index]) IN
         IF ~b.ok
         THEN [cells |-> cls, views |-> vws, ret |-> "BorrowConflict"]
         ELSE [cells |-> [cls EXCEPT ![md[T].storage_index] = b.cell],
               views |-> [vws EXCEPT ![T].comp_mut = @ + 1],
               ret   |-> "Ok"]

\* ComponentStorage::borrow_mut<T>() -> CompMut<T>: [cells, views, ret]
ComponentStorageBorrowMut(md, cls, vws, T) ==
    IF ~IsRegistered(md, T)
    THEN [cells |-> cls, views |-> vws, ret |-> "MissingComponent"]
    ELSE LET b == AtomicRefCellBorrowMut(cls[md[T].storage_index]) IN
         IF ~b.ok
         THEN [cells |-> cls, views |-> vws, ret |-> "BorrowConflict"]
         ELSE [cells |-> [cls EXCEPT ![md[T].storage_index] = b.cell],
               views |-> [vws EXCEPT ![T].comp_mut = @ + 1],
               ret   |-> "Ok"]

\* drop of a Comp<T>: [cells, views]
CompDrop(md, cls, vws, T) ==
    [cells |-> [cls EXCEPT ![md[T].storage_index] = AtomicRefDrop(@)],
     views |-> [vws EXCEPT ![T].comp = @ - 1]]

\* drop of a CompMut<T>: [cells, views]
CompMutDrop(md, cls, vws, T) ==
    [cells |-> [cls EXCEPT ![md[T].storage_index] = AtomicRefMutDrop(@)],
     views |-> [vws EXCEPT ![T].comp_mut = @ - 1]]

----------------------------------------------------------------------------
(* The storage as a state machine *)

Init ==
    /\ layout \in Layouts
    /\ LET st == ComponentStorageNew(layout) IN
       /\ groups = st.groups
       /\ metadata = st.metadata
       /\ components = st.components
       /\ cells = [s \in DOMAIN st.components |-> AtomicRefCellNew]
    /\ tick = 1
    /\ last = [op |-> "new", entity |-> None, carried |-> "none"]
    /\ world_entities = EntityStorageDefault
    /\ held_views = [T \in Types |-> [comp |-> 0, comp_mut |-> 0]]

\* how many of the tuple's types the entity carries: "none", "some" or "all"
Carried(entity, tuple) ==
    LET has == {k \in DOMAIN tuple :
                   SparseContains(components[metadata[tuple[k]].storage_index], entity)}
    IN  IF has = {} THEN "none" ELSE IF has = DOMAIN tuple THEN "all" ELSE "some"

RegisteredTuples == {tuple \in Tuples : FirstMissing(metadata, tuple) = 0}

\* ComponentStorage::register<T>()
Register(T) ==
    LET r == ComponentStorageRegister(metadata, components, T) IN
    /\ metadata' = r.metadata
    /\ components' = r.components
    /\ last' = [op |-> "register", entity |-> None, carried |-> "none"]
    /\ cells' = [s \in DOMAIN r.components |->
                     IF s \in DOMAIN cells THEN cells[s] ELSE AtomicRefCellNew]
    /\ UNCHANGED <<layout, groups, tick, world_entities, held_views>>

\* ComponentStorage::insert(entity, components)
Insert(entity, tuple, value) ==
    LET r == ComponentSetInsert(metadata, components, groups, entity, tuple, value, tick) IN
    /\ components' = r.components
    /\ groups' = r.groups
    /\ last' = [op |-> "insert", entity |-> Some(entity),
                carried |-> Carried(entity, tuple)]
    /\ UNCHANGED <<layout, metadata, tick, world_entities, cells, held_views>>

\* ComponentStorage::remove(entity)
Remove(entity, tuple) ==
    LET r == ComponentSetRemove(metadata, components, groups, entity, tuple) IN
    /\ components' = r.components
    /\ groups' = r.groups
    /\ last' = [op |-> "remove", entity |-> Some(entity),
                carried |-> Carried(entity, tuple)]
    /\ UNCHANGED <<layout, metadata, tick, world_entities, cells, held_views>>

\* ComponentStorage::delete(entity)
Delete(entity, tuple) ==
    LET r == ComponentSetDelete(metadata, components, groups, entity, tuple) IN
    /\ components' = r.components
    /\ groups' = r.groups
    /\ last' = [op |-> "delete", entity |-> Some(entity),
                carried |-> Carried(entity, tuple)]
    /\ UNCHANGED <<layout, metadata, tick, world_entities, cells, held_views>>

\* ComponentStorage::delete_all(entity)
DeleteAll(entity) ==
    LET r == ComponentStorageDeleteAll(components, groups, entity) IN
    /\ components' = r.components
    /\ groups' = r.groups
    /\ last' = [op |-> "delete_all", entity |-> Some(entity), carried |-> "none"]
    /\ UNCHANGED <<layout, metadata, tick, world_entities, cells, held_views>>

\* every layout; entities at their first version
Next ==
    \/ \E T \in Types : Register(T)
    \/ \E entity \in FirstEntities, tuple \in RegisteredTuples, value \in Values :
           Insert(entity, tuple, value)
    \/ \E entity \in FirstEntities, tuple \in RegisteredTuples : Remove(entity, tuple)
    \/ \E entity \in FirstEntities, tuple \in RegisteredTuples : Delete(entity, tuple)
    \/ \E entity \in FirstEntities : DeleteAll(entity)

Spec == Init /\ [][Next]_vars

\* the ids in use when index 0 has been recycled: every index at its first
\* version, and index 0 at every later version as well
RecycledEntities ==
    FirstEntities \cup {EntityNew(0, version) : version \in VersionFirst..MaxVersion}

\* the nested one-family layout; index 0 is used under several generations
InitVersions ==
    /\ Init
    /\ Len(layout) = 1
    /\ Len(layout[1].arities) = 2
    /\ Len(layout[1].components) = 3

NextVersions ==
    \/ \E entity \in RecycledEntities, tuple \in RegisteredTuples, value \in Values :
           Insert(entity, tuple, value)
    \/ \E entity \in RecycledEntities, tuple \in RegisteredTuples : Remove(entity, tuple)
    \/ \E entity \in RecycledEntities, tuple \in RegisteredTuples : Delete(entity, tuple)
    \/ \E entity \in RecycledEntities : DeleteAll(entity)

SpecVersions == InitVersions /\ [][NextVersions]_vars

----------------------------------------------------------------------------
(* The storage holding distinguishable values *)

\* the values inserted where the stored value must be told from another one
DataValues == 1..(MaxValue + 1)

\* ComponentStorage::insert(entity, components); the call is not recorded
StoreInsert(entity, tuple, value) ==
    LET r == ComponentSetInsert(metadata, components, groups, entity, tuple, value, tick) IN
    /\ components' = r.components
    /\ groups' = r.groups
    /\ UNCHANGED <<layout, metadata, tick, last, world_entities, cells, held_views>>

\* ComponentStorage::remove(entity); the call is not recorded
StoreRemove(entity, tuple) ==
    LET r == ComponentSetRemove(metadata, components, groups, entity, tuple) IN
    /\ components' = r.components
    /\ groups' = r.groups
    /\ UNCHANGED <<layout, metadata, tick, last, world_entities, cells, held_views>>

\* Ticks::MAX, the largest tick; the code's is 2^32 - 1, the model's is the
\* largest integer it can hold
TicksMax == 2147483647

\* advance_ticks as a plain wrapping increment: Ticks::MAX is followed by 0
WorldAdvanceTicksWrapping(t) ==
    IF t # TicksMax
    THEN [tick |-> t + 1, ret |-> "Ok"]
    ELSE [tick |-> 0, ret |-> "TickOverflow"]

\* World::advance_ticks() -> Result<(), TickOverflow>: [tick, ret]
WorldAdvanceTicks(t) ==
    IF t # TicksMax
    THEN [tick |-> t + 1, ret |-> "Ok"]
    ELSE [tick |-> 1, ret |-> "TickOverflow"]

\* World::advance_ticks(), while the tick is below the bound of the model
AdvanceTicks ==
    /\ tick < MaxTick
    /\ tick' = WorldAdvanceTicks(tick).tick
    /\ UNCHANGED <<layout, groups, metadata, components, last, world_entities, cells, held_views>>

\* every layout, every tuple of registered types, two values
NextData ==
    \/ \E entity \in FirstEntities, tuple \in RegisteredTuples, value \in DataValues :
           StoreInsert(entity, tuple, value)
    \/ \E entity \in FirstEntities, tuple \in RegisteredTuples : StoreRemove(entity, tuple)

SpecData == Init /\ [][NextData]_vars

\* the tuples over the types of the first group of the layout
FirstGroupTuples ==
    {tuple \in RegisteredTuples :
        \A k \in DOMAIN tuple :
            metadata[tuple[k]].storage_index \in GroupStorages(groups[0])}

\* the nested one-family layout, the types of its first group, two values,
\* the world tick advancing between the calls
NextTicks ==
    \/ \E entity \in FirstEntities, tuple \in FirstGroupTuples, value \in DataValues :
           StoreInsert(entity, tuple, value)
    \/ \E entity \in FirstEntities, tuple \in FirstGroupTuples : StoreRemove(entity, tuple)
    \/ AdvanceTicks

SpecTicks == InitVersions /\ [][NextTicks]_vars

----------------------------------------------------------------------------
(* The storage of every layout under inserts and removes of live entities *)

\* every layout, the entities at their first version, every tuple of
\* registered types, the type outside the layout registered at some point
NextSteps ==
    \/ \E entity \in FirstEntities, tuple \in RegisteredTuples, value \in Values :
           StoreInsert(entity, tuple, value)
    \/ \E entity \in FirstEntities, tuple \in RegisteredTuples : StoreRemove(entity, tuple)
    \/ \E T \in Types : Register(T)

SpecSteps == Init /\ [][NextSteps]_vars

----------------------------------------------------------------------------
(* Mutable access to a component and its change stamps *)

\* ComponentFlags::ADDED (bit 0) and ComponentFlags::CHANGED (bit 1)
ComponentFlagsADDED == {0}

ComponentFlagsCHANGED == {1}

\* ComponentRefMut::new(data, flags)
ComponentRefMutNew(data, flags) == [data |-> data, flags |-> flags]

\* Deref for ComponentRefMut that marks the component as a write does
ComponentRefMutDerefMarking(ref) ==
    [ref |-> [ref EXCEPT !.flags = @ \cup ComponentFlagsCHANGED], ret |-> ref.data]

\* Deref for ComponentRefMut: deref(&self) -> &T.  Result: [ref, ret]
ComponentRefMutDeref(ref) == [ref |-> ref, ret |-> ref.data]

\* DerefMut for ComponentRefMut that marks the component added as well
ComponentRefMutDerefMutAdding(ref) ==
    [ref |-> [ref EXCEPT !.flags = @ \cup ComponentFlagsCHANGED \cup ComponentFlagsADDED],
     ret |-> ref.data]

\* DerefMut for ComponentRefMut that hands the data out without marking it
ComponentRefMutDerefMutSilent(ref) == [ref |-> ref, ret |-> ref.data]

\* DerefMut for ComponentRefMut: deref_mut(&mut self) -> &mut T, after
\* flags.insert(CHANGED).  Result: [ref, ret]
ComponentRefMutDerefMut(ref) ==
    [ref |-> [ref EXCEPT !.flags = @ \cup ComponentFlagsCHANGED], ret |-> ref.data]

\* the marks of a slot as the holder of a reference sees them at tick t:
\* added or changed at this tick
FlagsOfTicks(ticks, t) ==
    (IF ticks.added = t THEN ComponentFlagsADDED ELSE {}) \cup
    (IF ticks.changed = t THEN ComponentFlagsCHANGED ELSE {})

\* the stamps of a slot once the reference is given back at tick t: a mark
\* set through the reference stamps the slot with t
TicksOfFlags(ticks, flags, t) ==
    [added   |-> IF ComponentFlagsADDED \subseteq flags THEN t ELSE ticks.added,
     changed |-> IF ComponentFlagsCHANGED \subseteq flags THEN t ELSE ticks.changed]

\* ComponentSparseSet::get_mut(entity) at tick t: the reference to the slot
SparseSetGetMutRef(set, entity, t) ==
    LET got == SparseGet(set, entity) IN
    IF got = None
    THEN None
    ELSE Some(ComponentRefMutNew(set.data[Unwrap(got)], FlagsOfTicks(set.ticks[Unwrap(got)], t)))

\* the slot of the entity after the reference is given back at tick t
SparseSetPutBack(set, entity, ref, t) ==
    LET d == Unwrap(SparseGet(set, entity)) IN
    [set EXCEPT !.data[d] = ref.data, !.ticks[d] = TicksOfFlags(set.ticks[d], ref.flags, t)]

\* get_mut(entity) whose reference is dropped unused: [set, ret]
CompMutObtain(set, entity, t) ==
    LET got == SparseSetGetMutRef(set, entity, t) IN
    IF got = None
    THEN [set |-> set, ret |-> None]
    ELSE [set |-> SparseSetPutBack(set, entity, Unwrap(got), t), ret |-> Some(TRUE)]

\* get_mut(entity) whose reference is only read through: [set, ret]
CompMutRead(set, entity, t) ==
    LET got == SparseSetGetMutRef(set, entity, t) IN
    IF got = None
    THEN [set |-> set, ret |-> None]
    ELSE LET r == ComponentRefMutDeref(Unwrap(got)) IN
         [set |-> SparseSetPutBack(set, entity, r.ref, t), ret |-> Some(r.ret)]

\* get_mut(entity) whose reference is dereferenced mutably: [set, ret]
CompMutWrite(set, entity, t) ==
    LET got == SparseSetGetMutRef(set, entity, t) IN
    IF got = None
    THEN [set |-> set, ret |-> None]
    ELSE LET r == ComponentRefMutDerefMut(Unwrap(got)) IN
         [set |-> SparseSetPutBack(set, entity, r.ref, t), ret |-> Some(r.ret)]

\* a system reads the component of a type through its mutable view
ReadCall(entity, T) ==
    LET s == metadata[T].storage_index IN
    /\ components' = [components EXCEPT ![s] = CompMutRead(components[s], entity, tick).set]
    /\ UNCHANGED <<layout, groups, metadata, tick, last, world_entities, cells, held_views>>

\* a system writes the component of a type through its mutable view
WriteCall(entity, T) ==
    LET s == metadata[T].storage_index IN
    /\ components' = [components EXCEPT ![s] = CompMutWrite(components[s], entity, tick).set]
    /\ UNCHANGED <<layout, groups, metadata, tick, last, world_entities, cells, held_views>>

\* the nested one-family layout, the types of its first group, two values,
\* the world tick advancing between inserts, removes, reads and writes
NextChange ==
    \/ \E entity \in FirstEntities, tuple \in FirstGroupTuples, value \in DataValues :
           StoreInsert(entity, tuple, value)
    \/ \E entity \in FirstEntities, tuple \in FirstGroupTuples : StoreRemove(entity, tuple)
    \/ AdvanceTicks
    \/ \E entity \in FirstEntities, T \in {"A", "B"} : ReadCall(entity, T)
    \/ \E entity \in FirstEntities, T \in {"A", "B"} : WriteCall(entity, T)

SpecChange == InitVersions /\ [][NextChange]_vars

----------------------------------------------------------------------------
(* The world tick up to and across its overflow *)

\* World::default() with tick 1, or the same world after TicksMax - 2 calls
\* of advance_ticks, each of which returned Ok
InitOverflow ==
    /\ layout = << [components |-> <<"A", "B", "C">>, arities |-> <<2, 3>>] >>
    /\ LET st == ComponentStorageNew(layout) IN
       /\ groups = st.groups
       /\ metadata = st.metadata
       /\ components = st.components
       /\ cells = [s \in DOMAIN st.components |-> AtomicRefCellNew]
    /\ world_entities = EntityStorageDefault
    /\ held_views = [T \in Types |-> [comp |-> 0, comp_mut |-> 0]]
    /\ \/ tick = 1 /\ last = [op |-> "new", entity |-> None, carried |-> "none"]
       \/ tick = TicksMax - 1 /\ last = [op |-> "advance_ticks", entity |-> None, carried |-> "Ok"]

\* World::advance_ticks(), the result recorded; ticks between MaxTick and
\* TicksMax - 1 are not walked through
AdvanceTicksCall ==
    LET r == WorldAdvanceTicks(tick) IN
    /\ tick < MaxTick \/ tick >= TicksMax - 1
    /\ tick' = r.tick
    /\ last' = [op |-> "advance_ticks", entity |-> None, carried |-> r.ret]
    /\ UNCHANGED <<layout, groups, metadata, components, world_entities, cells, held_views>>

NextOverflow ==
    \/ AdvanceTicksCall
    \/ \E entity \in FirstEntities, tuple \in FirstGroupTuples, value \in Values :
           StoreInsert(entity, tuple, value)
    \/ \E entity \in FirstEntities, tuple \in FirstGroupTuples : StoreRemove(entity, tuple)

SpecOverflow == InitOverflow /\ [][NextOverflow]_vars

----------------------------------------------------------------------------
(* Calls with tuples that may name an unregistered type *)

\* panic_missing_comp has halted the program
Halted == last.carried = "MissingComponent"

\* what a call leaves in last: the panic, or its completion
Outcome(panicked) == IF panicked THEN "MissingComponent" ELSE "done"

\* ComponentStorage::insert(entity, components) with any tuple of types
TryInsert(entity, tuple, value) ==
    LET r == ComponentSetInsert(metadata, components, groups, entity, tuple, value, tick) IN
    /\ ~Halted
    /\ components' = r.components
    /\ groups' = r.groups
    /\ last' = [op |-> "insert", entity |-> Some(entity), carried |-> Outcome(r.panicked)]
    /\ UNCHANGED <<layout, metadata, tick, world_entities, cells, held_views>>

\* ComponentStorage::remove(entity) with any tuple of types
TryRemove(entity, tuple) ==
    LET r == ComponentSetRemove(metadata, components, groups, entity, tuple) IN
    /\ ~Halted
    /\ components' = r.components
    /\ groups' = r.groups
    /\ last' = [op |-> "remove", entity |-> Some(entity), carried |-> Outcome(r.panicked)]
    /\ UNCHANGED <<layout, metadata, tick, world_entities, cells, held_views>>

\* ComponentStorage::delete(entity) with any tuple of types
TryDelete(entity, tuple) ==
    LET r == ComponentSetDelete(metadata, components, groups, entity, tuple) IN
    /\ ~Halted
    /\ components' = r.components
    /\ groups' = r.groups
    /\ last' = [op |-> "delete", entity |-> Some(entity), carried |-> Outcome(r.panicked)]
    /\ UNCHANGED <<layout, metadata, tick, world_entities, cells, held_views>>

\* the nested one-family layout, D unregistered; every tuple of one or two
\* types, the unregistered one first or second; nothing runs after a panic
NextPanics ==
    \/ \E entity \in FirstEntities, tuple \in Tuples, value \in Values :
           TryInsert(entity, tuple, value)
    \/ \E entity \in FirstEntities, tuple \in Tuples : TryRemove(entity, tuple)
    \/ \E entity \in FirstEntities, tuple \in Tuples : TryDelete(entity, tuple)

SpecPanics == InitVersions /\ [][NextPanics]_vars

----------------------------------------------------------------------------
(* World: the entity allocator in front of the storage *)

\* World::contains(entity)
WorldContains(es, entity) == EntityStorageContains(es, entity)

\* World::destroy that forgets the sparse sets: the allocator retires the id
\* and the groups let go of it, its components stay where they are
WorldDestroySetsKept(es, comps, grps, entity) ==
    LET d == EntityStorageDestroy(es, entity) IN
    IF ~d.ret
    THEN [entities |-> es, components |-> comps, groups |-> grps, ret |-> FALSE]
    ELSE [entities |-> d.entities, components |-> comps,
          groups |-> UngroupAll(comps, grps, entity).groups, ret |-> TRUE]

\* World::destroy that does not look at what the allocator answered
WorldDestroyUnchecked(es, comps, grps, entity) ==
    LET d == EntityStorageDestroy(es, entity)
        r == ComponentStorageDeleteAll(comps, grps, entity)
    IN  [entities |-> d.entities, components |-> r.components,
         groups |-> r.groups, ret |-> TRUE]

\* World::destroy(entity) -> bool: [entities, components, groups, ret].
\* An id the allocator does not hold returns false at once; otherwise the
\* entity is ungrouped from every family and removed from every storage.
WorldDestroy(es, comps, grps, entity) ==
    LET d == EntityStorageDestroy(es, entity) IN
    IF ~d.ret
    THEN [entities |-> es, components |-> comps, groups |-> grps, ret |-> FALSE]
    ELSE LET r == ComponentStorageDeleteAll(comps, grps, entity) IN
         [entities |-> d.entities, components |-> r.components,
          groups |-> r.groups, ret |-> TRUE]

\* World::append that inserts without asking the allocator about the entity
WorldAppendUnguarded(es, md, comps, grps, entity, tuple, value, t) ==
    LET r == ComponentSetInsert(md, comps, grps, entity, tuple, value, t) IN
    [components |-> r.components, groups |-> r.groups,
     ret |-> "Ok", panicked |-> r.panicked]

\* World::append(entity, components) -> Result<(), NoSuchEntity>:
\* [components, groups, ret, panicked]
WorldAppend(es, md, comps, grps, entity, tuple, value, t) ==
    IF ~WorldContains(es, entity)
    THEN [components |-> comps, groups |-> grps,
          ret |-> "NoSuchEntity", panicked |-> FALSE]
    ELSE LET r == ComponentSetInsert(md, comps, grps, entity, tuple, value, t) IN
         [components |-> r.components, groups |-> r.groups,
          ret |-> "Ok", panicked |-> r.panicked]

\* World::remove<C>(entity) -> Option<C>: the components, if the entity
\* carried them all
WorldRemove(es, md, comps, grps, entity, tuple) ==
    IF ~WorldContains(es, entity)
    THEN [components |-> comps, groups |-> grps, ret |-> None, panicked |-> FALSE]
    ELSE LET r == ComponentSetRemove(md, comps, grps, entity, tuple) IN
         [components |-> r.components, groups |-> r.groups,
          ret |-> IF ~r.panicked /\ \A k \in DOMAIN r.ret : IsSome(r.ret[k])
                  THEN Some([k \in DOMAIN r.ret |-> Unwrap(r.ret[k])])
                  ELSE None,
          panicked |-> r.panicked]

\* World::delete<C>(entity)
WorldDelete(es, md, comps, grps, entity, tuple) ==
    IF ~WorldContains(es, entity)
    THEN [components |-> comps, groups |-> grps, panicked |-> FALSE]
    ELSE LET r == ComponentSetDelete(md, comps, grps, entity, tuple) IN
         [components |-> r.components, groups |-> r.groups, panicked |-> r.panicked]

\* World::create(components), the allocator handing out `index`
CreateCall(index, tuple, value) ==
    LET c == EntityStorageCreate(world_entities, index)
        r == WorldAppend(c.entities, metadata, components, groups, c.ret, tuple, value, tick)
    IN  /\ index \in FreeIndexes(world_entities)
        /\ world_entities' = c.entities
        /\ components' = r.components
        /\ groups' = r.groups
        /\ last' = [op |-> "create", entity |-> Some(c.ret), carried |-> "none"]
        /\ UNCHANGED <<layout, metadata, tick, cells, held_views>>

\* World::destroy(entity)
DestroyCall(entity) ==
    LET r == WorldDestroy(world_entities, components, groups, entity) IN
    /\ world_entities' = r.entities
    /\ components' = r.components
    /\ groups' = r.groups
    /\ last' = [op |-> "destroy", entity |-> Some(entity),
                carried |-> IF r.ret THEN "all" ELSE "none"]
    /\ UNCHANGED <<layout, metadata, tick, cells, held_views>>

\* World::append(entity, components)
AppendCall(entity, tuple, value) ==
    LET r == WorldAppend(world_entities, metadata, components, groups,
                         entity, tuple, value, tick)
    IN  /\ components' = r.components
        /\ groups' = r.groups
        /\ last' = [op |-> "append", entity |-> Some(entity),
                    carried |-> Carried(entity, tuple)]
        /\ UNCHANGED <<layout, metadata, tick, world_entities, cells, held_views>>

\* World::remove<C>(entity)
RemoveCall(entity, tuple) ==
    LET r == WorldRemove(world_entities, metadata, components, groups, entity, tuple) IN
    /\ components' = r.components
    /\ groups' = r.groups
    /\ last' = [op |-> "world_remove", entity |-> Some(entity),
                carried |-> Carried(entity, tuple)]
    /\ UNCHANGED <<layout, metadata, tick, world_entities, cells, held_views>>

\* World::delete<C>(entity)
DeleteCall(entity, tuple) ==
    LET r == WorldDelete(world_entities, metadata, components, groups, entity, tuple) IN
    /\ components' = r.components
    /\ groups' = r.groups
    /\ last' = [op |-> "world_delete", entity |-> Some(entity),
                carried |-> Carried(entity, tuple)]
    /\ UNCHANGED <<layout, metadata, tick, world_entities, cells, held_views>>

\* the world over the nested one-family layout: entities come from the
\* allocator, and every id, live, destroyed or never created, is tried on
\* every operation
NextWorld ==
    \/ \E index \in 0..(MaxIndex - 1), tuple \in RegisteredTuples, value \in Values :
           CreateCall(index, tuple, value)
    \/ \E entity \in Entities : DestroyCall(entity)
    \/ \E entity \in Entities, tuple \in RegisteredTuples, value \in Values :
           AppendCall(entity, tuple, value)
    \/ \E entity \in Entities, tuple \in RegisteredTuples : RemoveCall(entity, tuple)
    \/ \E entity \in Entities, tuple \in RegisteredTuples : DeleteCall(entity, tuple)

SpecWorld == InitVersions /\ [][NextWorld]_vars

----------------------------------------------------------------------------
(* World::extend and World::clear *)

\* EntityStorage as a slice: the live entities; a created entity is pushed
\* at the end, so only the position of the new ones matters here
RECURSIVE EntityStorageAsRefFrom(_, _)
EntityStorageAsRefFrom(es, index) ==
    IF index >= MaxIndex
    THEN << >>
    ELSE (IF es[index].alive THEN <<EntityNew(index, es[index].version)>> ELSE << >>)
             \o EntityStorageAsRefFrom(es, index + 1)

EntityStorageAsRef(es) == EntityStorageAsRefFrom(es, 0)

\* the closure of extend_with_ticks, for the k-th tuple on: create an entity
\* and insert its components into their sparse sets; nothing is grouped yet.
\* acc: [entities, components, slice], slice the allocator's entities
RECURSIVE ExtendInsertFrom(_, _, _, _, _, _, _)
ExtendInsertFrom(md, acc, indexes, tuple, value, t, k) ==
    IF k > Len(indexes)
    THEN acc
    ELSE LET c    == EntityStorageCreate(acc.entities, indexes[k])
             each == InsertEach(md, [components |-> acc.components,
                                     group_mask |-> {}, ret |-> << >>],
                                c.ret, tuple, value, t, 1, Len(tuple))
         IN  ExtendInsertFrom(md,
                 [entities   |-> c.entities,
                  components |-> each.components,
                  slice      |-> Append(acc.slice, c.ret)],
                 indexes, tuple, value, t, k + 1)

\* families.indexes(): the families of the tuple's types, each as the mask
\* of its groups
TupleFamilyMasks(md, tuple) == {md[tuple[k]].insert_mask : k \in DOMAIN tuple} \ {{}}

\* the inner loop of extend: group_components(i, entity) for each new
\* entity, in the order of the slice
RECURSIVE GroupNewEntities(_, _, _, _, _)
GroupNewEntities(comps, grps, family_mask, new_entities, k) ==
    IF k > Len(new_entities)
    THEN [components |-> comps, groups |-> grps]
    ELSE LET r == Group(comps, grps, family_mask, new_entities[k]) IN
         GroupNewEntities(r.components, r.groups, family_mask, new_entities, k + 1)

\* the outer loop of extend over the families, the first family first
RECURSIVE GroupFamilies(_, _, _, _)
GroupFamilies(comps, grps, family_masks, new_entities) ==
    IF family_masks = {}
    THEN [components |-> comps, groups |-> grps]
    ELSE LET first == CHOOSE mask \in family_masks :
                          \A other \in family_masks : \A g \in mask, h \in other : g <= h \/ mask = other
             r     == GroupNewEntities(comps, grps, first, new_entities, 1)
         IN  GroupFamilies(r.components, r.groups, family_masks \ {first}, new_entities)

\* extend that takes the whole slice of the allocator for the new entities
WorldExtendWholeSlice(es, md, comps, grps, indexes, tuple, value, t) ==
    LET inserted == ExtendInsertFrom(md, [entities |-> es, components |-> comps,
                                          slice |-> EntityStorageAsRef(es)],
                                     indexes, tuple, value, t, 1)
        grouped == GroupFamilies(inserted.components, grps,
                                 TupleFamilyMasks(md, tuple), inserted.slice)
    IN  [entities |-> inserted.entities, components |-> grouped.components,
         groups |-> grouped.groups, ret |-> inserted.slice]

\* World::extend(components_iter) -> &[Entity], the allocator handing out
\* `indexes`: [entities, components, groups, ret]
WorldExtend(es, md, comps, grps, indexes, tuple, value, t) ==
    LET initial_entity_count == Len(EntityStorageAsRef(es))
        inserted == ExtendInsertFrom(md, [entities |-> es, components |-> comps,
                                          slice |-> EntityStorageAsRef(es)],
                                     indexes, tuple, value, t, 1)
        new_entities == SubSeq(inserted.slice, initial_entity_count + 1, Len(inserted.slice))
        grouped == GroupFamilies(inserted.components, grps,
                                 TupleFamilyMasks(md, tuple), new_entities)
    IN  [entities |-> inserted.entities, components |-> grouped.components,
         groups |-> grouped.groups, ret |-> new_entities]

\* the indexes the allocator may hand out to one extend: distinct free ones
FreeIndexSeqs(es) ==
    {<<i>> : i \in FreeIndexes(es)} \cup
    {p \in FreeIndexes(es) \X FreeIndexes(es) : p[1] # p[2]}

\* World::extend(components_iter)
ExtendCall(indexes, tuple, value) ==
    LET r == WorldExtend(world_entities, metadata, components, groups,
                         indexes, tuple, value, tick)
    IN  /\ indexes \in FreeIndexSeqs(world_entities)
        /\ world_entities' = r.entities
        /\ components' = r.components
        /\ groups' = r.groups
        /\ last' = [op |-> "extend", entity |-> Some(r.ret[Len(r.ret)]), carried |-> "none"]
        /\ UNCHANGED <<layout, metadata, tick, cells, held_views>>

\* EntityStorage::clear(): every live entity is destroyed
EntityStorageClear(es) ==
    [index \in DOMAIN es |->
        EntityStorageDestroy(es, EntityNew(index, es[index].version)).entities[index]]

\* the component storages' clear(): every sparse set emptied, every group
\* without entities
ComponentStoragesClear(comps, grps) ==
    [components |-> [s \in DOMAIN comps |-> EmptySparseSet],
     groups     |-> [g \in DOMAIN grps |-> [grps[g] EXCEPT !.len = 0]]]

\* World::clear that clears the allocator and leaves the storages
WorldClearEntitiesOnly(es, comps, grps) ==
    [entities |-> EntityStorageClear(es), components |-> comps, groups |-> grps]

\* World::clear(): self.entities.clear(); self.storages.clear()
WorldClear(es, comps, grps) ==
    LET storages == ComponentStoragesClear(comps, grps) IN
    [entities |-> EntityStorageClear(es),
     components |-> storages.components, groups |-> storages.groups]

\* World::clear()
ClearCall ==
    LET r == WorldClear(world_entities, components, groups) IN
    /\ world_entities' = r.entities
    /\ components' = r.components
    /\ groups' = r.groups
    /\ last' = [op |-> "clear", entity |-> None, carried |-> "none"]
    /\ UNCHANGED <<layout, metadata, tick, cells, held_views>>

\* the world over the nested one-family layout under every operation that
\* creates, fills, empties or destroys entities
NextWorldAll ==
    \/ \E index \in 0..(MaxIndex - 1), tuple \in RegisteredTuples, value \in Values :
           CreateCall(index, tuple, value)
    \/ \E indexes \in FreeIndexSeqs(world_entities), tuple \in RegisteredTuples,
          value \in Values :
           ExtendCall(indexes, tuple, value)
    \/ \E entity \in Entities : DestroyCall(entity)
    \/ \E entity \in Entities, tuple \in RegisteredTuples, value \in Values :
           AppendCall(entity, tuple, value)
    \/ \E entity \in Entities, tuple \in RegisteredTuples : RemoveCall(entity, tuple)
    \/ \E entity \in Entities, tuple \in RegisteredTuples : DeleteCall(entity, tuple)
    \/ ClearCall

SpecWorldAll == InitVersions /\ [][NextWorldAll]_vars

----------------------------------------------------------------------------
(* The allocator up to and past the last version *)

\* the ids a caller may hold: those of the first versions and those of the
\* last two
AllocatorEntities ==
    Entities \cup {EntityNew(i, v) : i \in 0..(MaxIndex - 1), v \in {VersionLast - 1, VersionLast}}

\* World::default(), or the same world after index 0 was given out and
\* destroyed VersionLast - 2 times
InitAllocator ==
    /\ layout = << [components |-> <<"A", "B", "C">>, arities |-> <<2, 3>>] >>
    /\ LET st == ComponentStorageNew(layout) IN
       /\ groups = st.groups
       /\ metadata = st.metadata
       /\ components = st.components
       /\ cells = [s \in DOMAIN st.components |-> AtomicRefCellNew]
    /\ tick = 1
    /\ held_views = [T \in Types |-> [comp |-> 0, comp_mut |-> 0]]
    /\ \/ /\ world_entities = EntityStorageDefault
          /\ last = [op |-> "new", entity |-> None, carried |-> "none"]
       \/ /\ world_entities = [EntityStorageDefault EXCEPT ![0].version = VersionLast - 1]
          /\ last = [op |-> "destroy", entity |-> Some(EntityNew(0, VersionLast - 2)),
                     carried |-> "all"]

NextAllocator ==
    \/ \E index \in 0..(MaxIndex - 1), tuple \in FirstGroupTuples, value \in Values :
           CreateCall(index, tuple, value)
    \/ \E entity \in AllocatorEntities : DestroyCall(entity)

SpecAllocator == InitAllocator /\ [][NextAllocator]_vars

----------------------------------------------------------------------------
(* Comparing entities *)

\* Ord::cmp of two integers
IntCmp(x, y) == IF x < y THEN "Less" ELSE IF x > y THEN "Greater" ELSE "Equal"

\* Ordering::then(other): the first ordering unless it is Equal
OrderingThen(ordering, other) == IF ordering # "Equal" THEN ordering ELSE other

\* Ord for Entity that compares the index first and the version second
EntityCmpIndexFirst(a, b) ==
    OrderingThen(IntCmp(a.index, b.index), IntCmp(a.version, b.version))

\* Ord for Entity: self.version.cmp(&other.version)
\*                     .then(self.index.cmp(&other.index))
EntityCmp(a, b) ==
    OrderingThen(IntCmp(a.version, b.version), IntCmp(a.index, b.index))

\* a caller compares two ids it holds; the pair and the answer are recorded
CompareCall(a, b) ==
    /\ last' = [op |-> "cmp", entity |-> Some(<<a, b>>), carried |-> EntityCmp(a, b)]
    /\ UNCHANGED <<layout, groups, metadata, components, tick, world_entities, cells, held_views>>

NextOrder ==
    \E a \in AllocatorEntities, b \in AllocatorEntities : CompareCall(a, b)

SpecOrder == InitAllocator /\ [][NextOrder]_vars

----------------------------------------------------------------------------
(* Borrows of systems *)

\* the variants of SystemBorrow that hold an asset
BorrowKinds == {"Comp", "CompMut", "Res", "ResMut"}

\* SystemBorrow: Entities, or a variant holding the ComponentInfo or the
\* TypeId of what it borrows; a type may be both a component and a resource
SystemBorrows ==
    {[kind |-> "Entities", asset |-> None]} \cup
    {[kind |-> k, asset |-> Some(T)] : k \in BorrowKinds, T \in Types}

\* conflicts_with that also sets two shared borrows of a component against
\* each other
SystemBorrowConflictsWithShared(self, other) ==
    CASE self.kind \in {"Comp", "CompMut"} /\ other.kind \in {"Comp", "CompMut"} ->
             self.asset = other.asset
      [] self.kind = "Res" /\ other.kind = "ResMut" -> self.asset = other.asset
      [] self.kind = "ResMut" /\ other.kind = "Res" -> self.asset = other.asset
      [] self.kind = "ResMut" /\ other.kind = "ResMut" -> self.asset = other.asset
      [] OTHER -> FALSE

\* SystemBorrow::conflicts_with: the match over (self, other), arm by arm
SystemBorrowConflictsWith(self, other) ==
    CASE self.kind = "Comp" /\ other.kind = "CompMut" -> self.asset = other.asset
      [] self.kind = "CompMut" /\ other.kind = "Comp" -> self.asset = other.asset
      [] self.kind = "CompMut" /\ other.kind = "CompMut" -> self.asset = other.asset
      [] self.kind = "Res" /\ other.kind = "ResMut" -> self.asset = other.asset
      [] self.kind = "ResMut" /\ other.kind = "Res" -> self.asset = other.asset
      [] self.kind = "ResMut" /\ other.kind = "ResMut" -> self.asset = other.asset
      [] OTHER -> FALSE

\* a scheduler asks whether two borrows conflict; the pair and the answer
\* are recorded
ConflictsWithCall(self, other) ==
    /\ last' = [op |-> "conflicts_with", entity |-> Some(<<self, other>>),
                carried |-> SystemBorrowConflictsWith(self, other)]
    /\ UNCHANGED <<layout, groups, metadata, components, tick, world_entities, cells, held_views>>

NextBorrows ==
    \E self \in SystemBorrows, other \in SystemBorrows : ConflictsWithCall(self, other)

SpecBorrows == InitAllocator /\ [][NextBorrows]_vars

----------------------------------------------------------------------------
(* Building the storage from a layout the caller describes *)

\* the families a caller may describe: the layouts above and four that
\* conflict (a type in two families, twice; arities that fall; arities that
\* repeat)
CandidateLayouts ==
    Layouts \cup
    { << [components |-> <<"A", "B">>, arities |-> <<2>>],
         [components |-> <<"B", "C">>, arities |-> <<2>>] >>,
      << [components |-> <<"A", "B">>, arities |-> <<2>>],
         [components |-> <<"A", "B">>, arities |-> <<2>>] >>,
      << [components |-> <<"A", "B", "C">>, arities |-> <<3, 2>>] >>,
      << [components |-> <<"A", "B", "C">>, arities |-> <<2, 2>>] >> }

\* a component type is named by two families
SharedAcrossFamilies(families) ==
    \E f, h \in DOMAIN families :
        /\ f # h
        /\ \E k \in DOMAIN families[f].components, j \in DOMAIN families[h].components :
               families[f].components[k] = families[h].components[j]

\* the arities of every family are strictly increasing
AritiesIncreasing(families) ==
    \A f \in DOMAIN families :
        \A k \in 1..(Len(families[f].arities) - 1) :
            families[f].arities[k] < families[f].arities[k + 1]

\* GroupLayout construction: Err(LayoutConflict) for a type in more than one
\* family or arities that are not strictly increasing.  Result: [ret, layout]
GroupLayoutNew(families) ==
    IF SharedAcrossFamilies(families) \/ ~AritiesIncreasing(families)
    THEN [ret |-> "LayoutConflict", layout |-> None]
    ELSE [ret |-> "Ok", layout |-> Some(families)]

\* ComponentStorage::default() while the caller holds the families to pass
InitLayout ==
    /\ layout \in CandidateLayouts
    /\ groups = EmptyVec
    /\ metadata = EmptyVec
    /\ components = EmptyVec
    /\ cells = EmptyVec
    /\ tick = 1
    /\ last = [op |-> "new", entity |-> None, carried |-> "none"]
    /\ world_entities = EntityStorageDefault
    /\ held_views = [T \in Types |-> [comp |-> 0, comp_mut |-> 0]]

\* the layout is constructed and, if accepted, ComponentStorage::new(layout)
\* builds the storage; a conflict is returned and nothing is built
BuildLayout ==
    LET r == GroupLayoutNew(layout) IN
    /\ last.op = "new"
    /\ IF r.ret = "Ok"
       THEN LET st == ComponentStorageNew(Unwrap(r.layout)) IN
            /\ groups' = st.groups
            /\ metadata' = st.metadata
            /\ components' = st.components
            /\ cells' = [s \in DOMAIN st.components |-> AtomicRefCellNew]
       ELSE UNCHANGED <<groups, metadata, components, cells>>
    /\ last' = [op |-> "layout", entity |-> None, carried |-> r.ret]
    /\ UNCHANGED <<layout, tick, world_entities, held_views>>

NextLayout ==
    \/ BuildLayout
    \/ \E entity \in FirstEntities, tuple \in RegisteredTuples, value \in Values :
           StoreInsert(entity, tuple, value)

SpecLayout == InitLayout /\ [][NextLayout]_vars

----------------------------------------------------------------------------
(* Borrowing views of the sparse sets *)

\* <Comp<T> as FetchFrom<World>>::fetch: the storage's borrow, an
\* unregistered type ending in panic_missing_comp
WorldFetchComp(md, cls, vws, T) == ComponentStorageBorrow(md, cls, vws, T)

\* <CompMut<T> as FetchFrom<World>>::fetch
WorldFetchCompMut(md, cls, vws, T) == ComponentStorageBorrowMut(md, cls, vws, T)

\* no view is held: the storage can be borrowed as &mut
NoViews == \A T \in Types : held_views[T].comp = 0 /\ held_views[T].comp_mut = 0

\* ComponentStorage::borrow<T>(), at most MaxShared views of a type at a time
BorrowCall(T) ==
    LET r == ComponentStorageBorrow(metadata, cells, held_views, T) IN
    /\ held_views[T].comp < MaxShared
    /\ cells' = r.cells
    /\ held_views' = r.views
    /\ UNCHANGED <<layout, groups, metadata, components, tick, last, world_entities>>

\* ComponentStorage::borrow_mut<T>()
BorrowMutCall(T) ==
    LET r == ComponentStorageBorrowMut(metadata, cells, held_views, T) IN
    /\ cells' = r.cells
    /\ held_views' = r.views
    /\ UNCHANGED <<layout, groups, metadata, components, tick, last, world_entities>>

\* a Comp<T> goes out of scope
DropComp(T) ==
    LET r == CompDrop(metadata, cells, held_views, T) IN
    /\ held_views[T].comp > 0
    /\ cells' = r.cells
    /\ held_views' = r.views
    /\ UNCHANGED <<layout, groups, metadata, components, tick, last, world_entities>>

\* a CompMut<T> goes out of scope
DropCompMut(T) ==
    LET r == CompMutDrop(metadata, cells, held_views, T) IN
    /\ held_views[T].comp_mut > 0
    /\ cells' = r.cells
    /\ held_views' = r.views
    /\ UNCHANGED <<layout, groups, metadata, components, tick, last, world_entities>>

\* the nested one-family layout: views are taken and dropped; the calls that
\* need the storage as &mut (register, insert) run while no view is held
NextBorrow ==
    \/ \E T \in Types : BorrowCall(T)
    \/ \E T \in Types : BorrowMutCall(T)
    \/ \E T \in Types : DropComp(T)
    \/ \E T \in Types : DropCompMut(T)
    \/ \E T \in Types : NoViews /\ Register(T)
    \/ \E entity \in FirstEntities, tuple \in RegisteredTuples, value \in Values :
           NoViews /\ StoreInsert(entity, tuple, value)

SpecBorrow == InitVersions /\ [][NextBorrow]_vars

----------------------------------------------------------------------------
(* Views and GroupInfo: entity/group_info.rs with ComponentStorage::borrow *)

\* a slice &[Group] of the storage's group vector: the global index of its
\* first group (the identity that ptr::eq compares) and its length
Slice(ptr, len) == [ptr |-> ptr, len |-> len]

\* slice.last()
SliceLast(grps, slice) == grps[slice.ptr + slice.len - 1]

\* a Range<usize> start..end
RangeOf(start, end) == [start |-> start, end |-> end]

\* GroupInfo::new(groups, storage_mask)
GroupInfoNew(groups_slice, storage_mask) ==
    [groups |-> groups_slice, storage_mask |-> storage_mask]

\* ComponentStorage::borrow<T>() / borrow_mut<T>(): the view of T's sparse set
\* with its group info: the groups 0..group_end of the storage, and no group
\* info for a type with an empty storage mask
Borrow(md, T) ==
    LET m == md[T] IN
    [storage_index |-> m.storage_index,
     group_info    |-> IF m.storage_mask # {}
                       THEN Some(GroupInfoNew(Slice(0, m.group_end), m.storage_mask))
                       ELSE None]

\* cmp::max_by_key(a, b, |g| g.len()): the second argument unless the first
\* is strictly longer
MaxByKeyLen(a, b) == IF a.len > b.len THEN a ELSE b

\* GroupInfo::combine(&self, other) -> Option<GroupInfo>
GroupInfoCombine(self, other) ==
    IF self.groups.ptr # other.groups.ptr
    THEN None
    ELSE Some([groups       |-> MaxByKeyLen(self.groups, other.groups),
               storage_mask |-> self.storage_mask \cup other.storage_mask])

\* IncludeGroupRange with the mask test weakened to containment: a strict
\* subset of the group's types gets the window
IncludeGroupRangeSubset(grps, self) ==
    LET group == SliceLast(grps, self.groups) IN
    IF self.storage_mask \subseteq group.metadata.include_mask.include
    THEN Some(RangeOf(0, group.len))
    ELSE None

\* GroupInfo::include_group_range(&self) -> Option<Range<usize>>
IncludeGroupRange(grps, self) ==
    LET group == SliceLast(grps, self.groups)
        mask  == [include |-> self.storage_mask, exclude |-> {}]
    IN  IF mask = group.metadata.include_mask
        THEN Some(RangeOf(0, group.len))
        ELSE None

\* GroupInfo::exclude_group_range(&self, exclude) -> Option<Range<usize>>.
\* prev_group is read unchecked at groups.len() - 2: a read before the start
\* of the slice is marked "out_of_bounds"
ExcludeGroupRange(grps, self, exclude) ==
    IF self.groups.ptr # exclude.groups.ptr
    THEN None
    ELSE LET groups_ == MaxByKeyLen(self.groups, exclude.groups)
             group   == SliceLast(grps, groups_)
             mask    == [include |-> self.storage_mask,
                         exclude |-> exclude.storage_mask]
         IN  IF mask # group.metadata.exclude_mask
             THEN None
             ELSE IF groups_.len < 2
             THEN Some(RangeOf(group.len, "out_of_bounds"))
             ELSE Some(RangeOf(group.len, grps[groups_.ptr + groups_.len - 2].len))

----------------------------------------------------------------------------
(* GroupInfo by family and offset: components/group_info.rs, group/info.rs *)

\* the group info a view carries in the family-and-offset form: the slice of
\* its family's groups, the offset in the family of the group that first holds
\* the type, and the type's storage mask; none for an ungrouped type
ViewGroupInfo(md, T) ==
    LET m == md[T] IN
    IF m.storage_mask = {}
    THEN None
    ELSE LET group_start == CHOOSE g \in m.insert_mask :
                                \A h \in m.insert_mask : g <= h
         IN  Some([group_family |-> Slice(group_start, Cardinality(m.insert_mask)),
                   group_offset |-> m.group_end - 1 - group_start,
                   storage_mask |-> m.storage_mask])

\* components/group_info.rs GroupInfo::new(family, group_offset, storage_mask)
FamilyGroupInfoNew(family, group_offset, storage_mask) ==
    [family |-> family, group_offset |-> group_offset, storage_mask |-> storage_mask]

IntMax(a, b) == IF a >= b THEN a ELSE b

\* components/group_info.rs GroupInfo::combine(self, info)
FamilyGroupInfoCombine(self, info) ==
    IF self.family # info.family
    THEN None
    ELSE Some([family       |-> self.family,
               group_offset |-> IntMax(self.group_offset, info.group_offset),
               storage_mask |-> self.storage_mask \cup info.storage_mask])

\* components/group_info.rs GroupInfo::group_len(&self) -> Option<usize>
GroupLen(grps, self) ==
    LET group == grps[self.family + self.group_offset]
        mask  == [include |-> self.storage_mask, exclude |-> {}]
    IN  IF mask = group.metadata.include_mask THEN Some(group.len) ELSE None

\* components/group_info.rs GroupInfo::exclude_group_range(&self, exclude)
FamilyExcludeGroupRange(grps, self, exclude) ==
    IF self.family # exclude.family
    THEN None
    ELSE LET mask == [include |-> self.storage_mask,
                      exclude |-> exclude.storage_mask]
             group_offset == IntMax(self.group_offset, exclude.group_offset)
             group == grps[self.family + group_offset]
         IN  IF mask = group.metadata.exclude_mask
             THEN IF group_offset < 1
                  THEN Some(RangeOf(group.len, "out_of_bounds"))
                  ELSE Some(RangeOf(group.len, grps[self.family + group_offset - 1].len))
             ELSE None

\* CombinedGroupInfo::default()
CombinedGroupInfoDefault ==
    [group_family |-> None, max_group_offset |-> 0, storage_mask |-> {}]

\* CombinedGroupInfo::combine(self, group_info) -> Option<CombinedGroupInfo>
CombinedGroupInfoCombine(self, group_info) ==
    IF IsSome(self.group_family)
    THEN IF Unwrap(self.group_family) = group_info.group_family
         THEN Some([group_family     |-> self.group_family,
                    max_group_offset |-> IntMax(self.max_group_offset,
                                                group_info.group_offset),
                    storage_mask     |-> self.storage_mask \cup group_info.storage_mask])
         ELSE None
    ELSE Some([group_family     |-> Some(group_info.group_family),
               max_group_offset |-> group_info.group_offset,
               storage_mask     |-> group_info.storage_mask])

\* common_group_family(group_families): the one family the present entries
\* share; None if two differ or none is present
RECURSIVE CommonGroupFamilyFrom(_, _, _)
CommonGroupFamilyFrom(group_families, k, group_family) ==
    IF k > Len(group_families)
    THEN group_family
    ELSE LET gf == group_families[k] IN
         IF gf = None
         THEN CommonGroupFamilyFrom(group_families, k + 1, group_family)
         ELSE IF group_family = None
         THEN CommonGroupFamilyFrom(group_families, k + 1, gf)
         ELSE IF Unwrap(group_family) # Unwrap(gf)
         THEN None
         ELSE CommonGroupFamilyFrom(group_families, k + 1, group_family)

CommonGroupFamily(group_families) == CommonGroupFamilyFrom(group_families, 1, None)

\* group_range(base, include, exclude) -> Option<Range<usize>>
GroupRange(grps, base, include, exclude) ==
    LET group_family == CommonGroupFamily(
            <<base.group_family, include.group_family, exclude.group_family>>)
    IN  IF group_family = None
        THEN None
        ELSE LET family == Unwrap(group_family)
                 max_group_offset ==
                     IntMax(IntMax(base.max_group_offset, include.max_group_offset),
                            exclude.max_group_offset)
                 group_mask == [include |-> base.storage_mask \cup include.storage_mask,
                                exclude |-> exclude.storage_mask]
                 group == grps[family.ptr + max_group_offset]
             IN  IF group_mask = group.metadata.include_mask
                 THEN Some(RangeOf(0, group.len))
                 ELSE IF group_mask = group.metadata.exclude_mask
                 THEN IF max_group_offset < 1
                      THEN Some(RangeOf(group.len, "out_of_bounds"))
                      ELSE Some(RangeOf(group.len,
                                        grps[family.ptr + max_group_offset - 1].len))
                 ELSE None

----------------------------------------------------------------------------
(* Queries: base, include and exclude views; sparse and dense iteration *)

\* the views a query part borrows, in the order of its types
Views(md, types) == [k \in DOMAIN types |-> Borrow(md, types[k])]

\* CombineFrom passing over a view without group info instead of giving up
RECURSIVE CombineFromSkippingNone(_, _, _)
CombineFromSkippingNone(views, k, acc) ==
    IF k > Len(views)
    THEN acc
    ELSE IF acc = None
    THEN None
    ELSE IF views[k].group_info = None
    THEN CombineFromSkippingNone(views, k + 1, acc)
    ELSE CombineFromSkippingNone(views, k + 1,
             GroupInfoCombine(Unwrap(acc), Unwrap(views[k].group_info)))

\* query_group_info!: the first view's info combined with each next view's;
\* None once a view has no info or a combine fails
RECURSIVE CombineFrom(_, _, _)
CombineFrom(views, k, acc) ==
    IF k > Len(views)
    THEN acc
    ELSE IF acc = None \/ views[k].group_info = None
    THEN None
    ELSE CombineFrom(views, k + 1,
                     GroupInfoCombine(Unwrap(acc), Unwrap(views[k].group_info)))

QueryGroupInfo(views) ==
    IF Len(views) = 0 THEN None ELSE CombineFrom(views, 2, views[1].group_info)

\* the same fold for the family-and-offset form, one CombinedGroupInfo per
\* query part
RECURSIVE CombinedFrom(_, _, _, _)
CombinedFrom(md, types, k, acc) ==
    IF k > Len(types)
    THEN acc
    ELSE IF acc = None \/ ViewGroupInfo(md, types[k]) = None
    THEN None
    ELSE CombinedFrom(md, types, k + 1,
                      CombinedGroupInfoCombine(Unwrap(acc),
                                               Unwrap(ViewGroupInfo(md, types[k]))))

CombinedGroupInfoOf(md, types) == CombinedFrom(md, types, 1, Some(CombinedGroupInfoDefault))

\* the fold of components/group_info.rs combine over the views of the types
RECURSIVE FamilyCombineFrom(_, _, _, _)
FamilyCombineFrom(md, types, k, acc) ==
    IF k > Len(types)
    THEN acc
    ELSE IF acc = None \/ ViewGroupInfo(md, types[k]) = None
    THEN None
    ELSE LET v == Unwrap(ViewGroupInfo(md, types[k])) IN
         FamilyCombineFrom(md, types, k + 1,
             FamilyGroupInfoCombine(
                 Unwrap(acc),
                 FamilyGroupInfoNew(v.group_family.ptr, v.group_offset, v.storage_mask)))

FamilyGroupInfoOf(md, types) ==
    IF Len(types) = 0 \/ ViewGroupInfo(md, types[1]) = None
    THEN None
    ELSE LET v == Unwrap(ViewGroupInfo(md, types[1])) IN
         FamilyCombineFrom(md, types, 2,
             Some(FamilyGroupInfoNew(v.group_family.ptr, v.group_offset, v.storage_mask)))

\* Query::includes / contains_all: the entity is in every view
ContainsAll(comps, views, entity) ==
    \A k \in DOMAIN views : SparseContains(comps[views[k].storage_index], entity)

\* ContainsNone with the conjunction of the views turned into a disjunction:
\* the entity is missing from some view
ContainsNoneOfSome(comps, views, entity) ==
    \/ Len(views) = 0
    \/ \E k \in DOMAIN views : ~SparseContains(comps[views[k].storage_index], entity)

\* Query::excludes / contains_none: the entity is in none of the views
ContainsNone(comps, views, entity) ==
    \A k \in DOMAIN views : ~SparseContains(comps[views[k].storage_index], entity)

\* Query::get on the base views: every view's slot for the entity, or None
BaseGet(comps, views, entity) ==
    IF ContainsAll(comps, views, entity)
    THEN Some([k \in DOMAIN views |->
                  LET set == comps[views[k].storage_index]
                  IN  set.data[Unwrap(SparseGet(set, entity))]])
    ELSE None

\* split_sparse!: the index of the base view whose entity slice is iterated;
\* a later view replaces the choice only if it is strictly shorter
RECURSIVE ShortestFrom(_, _, _, _)
ShortestFrom(comps, views, k, best) ==
    IF k > Len(views)
    THEN best
    ELSE IF SparseSetLen(comps[views[k].storage_index])
                < SparseSetLen(comps[views[best].storage_index])
    THEN ShortestFrom(comps, views, k + 1, k)
    ELSE ShortestFrom(comps, views, k + 1, best)

SplitSparse(comps, views) == comps[views[ShortestFrom(comps, views, 2, 1)].storage_index].entities

\* SparseIter::next, run to exhaustion from position index: the items yielded,
\* each with its entity
RECURSIVE SparseIterFrom(_, _, _, _, _, _)
SparseIterFrom(comps, entities, base, include, exclude, index) ==
    IF index >= VecLen(entities)
    THEN << >>
    ELSE LET entity == entities[index]
             rest   == SparseIterFrom(comps, entities, base, include, exclude, index + 1)
         IN  IF /\ ContainsNone(comps, exclude, entity)
                /\ ContainsAll(comps, include, entity)
                /\ IsSome(BaseGet(comps, base, entity))
             THEN <<[entity |-> entity, item |-> Unwrap(BaseGet(comps, base, entity))]>>
                      \o rest
             ELSE rest

SparseIter(md, comps, q) ==
    SparseIterFrom(comps, SplitSparse(comps, Views(md, q.base)),
                   Views(md, q.base), Views(md, q.include), Views(md, q.exclude), 0)

\* split_dense_data and get_dense: the entities of the first base view and,
\* at each position of the range, the data every base view holds there.  The
\* dense arrays are indexed unchecked: the items stop at the first position
\* that lies outside a base view
RECURSIVE DenseIterFrom(_, _, _, _)
DenseIterFrom(comps, base, index, end) ==
    IF index >= end
    THEN << >>
    ELSE IF \E k \in DOMAIN base : index >= SparseSetLen(comps[base[k].storage_index])
    THEN << >>
    ELSE <<[entity |-> comps[base[1].storage_index].entities[index],
            item   |-> [k \in DOMAIN base |-> comps[base[k].storage_index].data[index]]]>>
             \o DenseIterFrom(comps, base, index + 1, end)

\* a position of the range lies outside a base view: the unchecked read there
\* is undefined
DenseOutOfBounds(comps, base, range) ==
    \E index \in range.start..(range.end - 1) :
        \E k \in DOMAIN base : index >= SparseSetLen(comps[base[k].storage_index])

DenseIter(md, comps, q, range) ==
    [items     |-> DenseIterFrom(comps, Views(md, q.base), range.start, range.end),
     undefined |-> DenseOutOfBounds(comps, Views(md, q.base), range)]

\* the range iter() looks for: base and include views combined; with no
\* exclude view the include range of the result, else its exclude range
\* against the combined exclude views
QueryGroupRange(md, grps, q) ==
    LET info == QueryGroupInfo(Views(md, q.base \o q.include)) IN
    IF info = None
    THEN None
    ELSE IF Len(q.exclude) = 0
    THEN IncludeGroupRange(grps, Unwrap(info))
    ELSE LET exclude == QueryGroupInfo(Views(md, q.exclude)) IN
         IF exclude = None
         THEN None
         ELSE ExcludeGroupRange(grps, Unwrap(info), Unwrap(exclude))

\* the same choice through group_range of the family-and-offset form
QueryFamilyRange(md, grps, q) ==
    LET base    == CombinedGroupInfoOf(md, q.base)
        include == CombinedGroupInfoOf(md, q.include)
        exclude == CombinedGroupInfoOf(md, q.exclude)
    IN  IF base = None \/ include = None \/ exclude = None
        THEN None
        ELSE GroupRange(grps, Unwrap(base), Unwrap(include), Unwrap(exclude))

\* query.iter(): dense over the group range if there is one, else sparse
QueryIter(md, comps, grps, q) ==
    LET range == QueryGroupRange(md, grps, q) IN
    IF IsSome(range)
    THEN DenseIter(md, comps, q, Unwrap(range))
    ELSE [items |-> SparseIter(md, comps, q), undefined |-> FALSE]

\* query.get(entity): include and exclude checked, then the base views' slots
QueryGet(md, comps, q, entity) ==
    IF /\ ContainsAll(comps, Views(md, q.include), entity)
       /\ ContainsNone(comps, Views(md, q.exclude), entity)
    THEN BaseGet(comps, Views(md, q.base), entity)
    ELSE None

\* the change-tick filters of a component view
ChangeTicksFilters == {"Passthrough", "Added", "Changed"}

\* ChangeTicksFilter for Passthrough: matches(_, _, _) is true
PassthroughMatches(ticks, world_tick, change_tick) == TRUE

\* ChangeTicksFilter for Added: the slot was added no earlier than the tick
\* the system last ran at
AddedMatches(ticks, world_tick, change_tick) == ticks.added >= change_tick

\* ChangeTicksFilter for Changed: the slot was changed no earlier than the
\* tick the system last ran at
ChangedMatches(ticks, world_tick, change_tick) == ticks.changed >= change_tick

\* F::matches(ticks, world_tick, change_tick) of the filter type F
ChangeTicksFilterMatches(F, ticks, world_tick, change_tick) ==
    CASE F = "Passthrough" -> PassthroughMatches(ticks, world_tick, change_tick)
      [] F = "Added"       -> AddedMatches(ticks, world_tick, change_tick)
      [] F = "Changed"     -> ChangedMatches(ticks, world_tick, change_tick)

\* GetComponent::get_from_parts_unchecked::<F>(components, ticks, index,
\* world_tick, change_tick): the item of the slot if its ticks pass F
GetFromPartsUnchecked(F, set, index, world_tick, change_tick) ==
    IF ChangeTicksFilterMatches(F, set.ticks[index], world_tick, change_tick)
    THEN Some(<<set.data[index]>>)
    ELSE None

\* GetComponentSet::get_sparse_unchecked::<F>
GetSparseUnchecked(F, set, index, world_tick, change_tick) ==
    GetFromPartsUnchecked(F, set, index, world_tick, change_tick)

\* get_dense_unchecked that hands out the slot without asking the filter
GetDenseUncheckedUnfiltered(F, set, index, world_tick, change_tick) ==
    Some(<<set.data[index]>>)

\* GetComponentSet::get_dense_unchecked::<F>
GetDenseUnchecked(F, set, index, world_tick, change_tick) ==
    GetFromPartsUnchecked(F, set, index, world_tick, change_tick)

\* SparseIter::next over one filtered base view: exclude and include are
\* checked, the base view's index is looked up and the filtered item taken;
\* a candidate without an item is skipped
RECURSIVE FilteredSparseIterFrom(_, _, _, _, _, _, _, _, _)
FilteredSparseIterFrom(F, comps, entities, base, include, exclude, world_tick, change_tick, index) ==
    IF index >= VecLen(entities)
    THEN << >>
    ELSE LET entity == entities[index]
             set    == comps[base[1].storage_index]
             rest   == FilteredSparseIterFrom(F, comps, entities, base, include, exclude,
                                              world_tick, change_tick, index + 1)
             got    == GetIndexFromSparse(set, entity)
             item   == IF got = None
                       THEN None
                       ELSE GetSparseUnchecked(F, set, Unwrap(got), world_tick, change_tick)
         IN  IF /\ ContainsNone(comps, exclude, entity)
                /\ ContainsAll(comps, include, entity)
                /\ IsSome(item)
             THEN <<[entity |-> entity, item |-> Unwrap(item)]>> \o rest
             ELSE rest

\* the dense iterator over one filtered base view: every position of the
\* group range, the filtered item taken at each
RECURSIVE FilteredDenseIterFrom(_, _, _, _, _, _, _)
FilteredDenseIterFrom(F, comps, base, world_tick, change_tick, index, end) ==
    IF index >= end \/ index >= SparseSetLen(comps[base[1].storage_index])
    THEN << >>
    ELSE LET set  == comps[base[1].storage_index]
             item == GetDenseUnchecked(F, set, index, world_tick, change_tick)
             rest == FilteredDenseIterFrom(F, comps, base, world_tick, change_tick, index + 1, end)
         IN  IF IsSome(item)
             THEN <<[entity |-> set.entities[index], item |-> Unwrap(item)]>> \o rest
             ELSE rest

\* query.iter() of a query whose base is one view filtered by F: dense over
\* the group range if there is one, else sparse
FilteredQueryIter(F, md, comps, grps, q, world_tick, change_tick) ==
    LET range == QueryGroupRange(md, grps, q) IN
    IF IsSome(range)
    THEN FilteredDenseIterFrom(F, comps, Views(md, q.base), world_tick, change_tick,
                               Unwrap(range).start, Unwrap(range).end)
    ELSE FilteredSparseIterFrom(F, comps, SplitSparse(comps, Views(md, q.base)),
                                Views(md, q.base), Views(md, q.include), Views(md, q.exclude),
                                world_tick, change_tick, 0)

\* the queries examined: every split of the types into base, include,
\* exclude and unused, the base not empty, each part in the order of TypeOrder
Roles == {"base", "include", "exclude", "unused"}

TypesAs(role, r) == SelectSeq(TypeOrder, LAMBDA T : role[T] = r)

Queries ==
    {[base    |-> TypesAs(role, "base"),
      include |-> TypesAs(role, "include"),
      exclude |-> TypesAs(role, "exclude")] :
        role \in {ro \in [Types -> Roles] : \E T \in Types : ro[T] = "base"}}

QueryTypes(q) == {(q.base \o q.include \o q.exclude)[k] :
                     k \in 1..(Len(q.base) + Len(q.include) + Len(q.exclude))}

\* borrow panics for an unregistered type: only these queries can be built
RegisteredQueries == {q \in Queries : \A T \in QueryTypes(q) : IsRegistered(metadata, T)}

----------------------------------------------------------------------------
(* View and query operations as calls of a system *)

\* get_mut(entity), the reference dereferenced mutably and the value
\* assigned through it: [set, ret]
CompMutStore(set, entity, value, t) ==
    LET got == SparseSetGetMutRef(set, entity, t) IN
    IF got = None
    THEN [set |-> set, ret |-> None]
    ELSE LET r == ComponentRefMutDerefMut(Unwrap(got)) IN
         [set |-> SparseSetPutBack(set, entity, [r.ref EXCEPT !.data = value], t),
          ret |-> Some(r.ret)]

\* the items a mutable view yielded, from the k-th on: the reference of an
\* entity in written is assigned through, every other one is dropped unused
RECURSIVE WriteThroughItems(_, _, _, _, _, _)
WriteThroughItems(set, items, k, written, value, t) ==
    IF k > Len(items)
    THEN set
    ELSE WriteThroughItems(
             IF items[k].entity \in written
             THEN CompMutStore(set, items[k].entity, value, t).set
             ELSE CompMutObtain(set, items[k].entity, t).set,
             items, k + 1, written, value, t)

\* the queries a system runs here: one base view, the other view over the
\* types of the first group
ViewQueries ==
    {q \in RegisteredQueries : Len(q.base) = 1 /\ QueryTypes(q) \subseteq {"A", "B"}}

\* view.contains(entity)
ContainsCall(entity, T) ==
    /\ SparseContains(components[metadata[T].storage_index], entity) \in BOOLEAN
    /\ last' = [op |-> "contains", entity |-> None, carried |-> "none"]
    /\ UNCHANGED <<layout, groups, metadata, components, tick, world_entities, cells, held_views>>

\* query.get(entity) over a mutable base view; the reference, if there is
\* one, is assigned through or dropped unused
GetCall(q, entity, write, value) ==
    LET s   == metadata[q.base[1]].storage_index
        got == QueryGet(metadata, components, q, entity)
    IN  /\ last' = [op |-> "get", entity |-> Some(entity), carried |-> "none"]
        /\ components' =
               IF got = None
               THEN components
               ELSE [components EXCEPT ![s] =
                        IF write
                        THEN CompMutStore(components[s], entity, value, tick).set
                        ELSE CompMutObtain(components[s], entity, tick).set]
        /\ UNCHANGED <<layout, groups, metadata, tick, world_entities, cells, held_views>>

\* query.iter() over a mutable base view, dense or sparse, run to its end;
\* the system assigns through the references of the entities in written
IterCall(q, written, value) ==
    LET s     == metadata[q.base[1]].storage_index
        items == QueryIter(metadata, components, groups, q).items
    IN  /\ last' = [op |-> "iter", entity |-> None, carried |-> "none"]
        /\ components' = [components EXCEPT ![s] =
               WriteThroughItems(components[s], items, 1, written, value, tick)]
        /\ UNCHANGED <<layout, groups, metadata, tick, world_entities, cells, held_views>>

\* view.split() and the slices entities() / components() of a view: the
\* dense entities, the sparse vec and the data are handed out to be read
SplitCall(T) ==
    LET set == components[metadata[T].storage_index] IN
    /\ VecLen(set.entities) = VecLen(set.data)
    /\ last' = [op |-> "split", entity |-> None, carried |-> "none"]
    /\ UNCHANGED <<layout, groups, metadata, components, tick, world_entities, cells, held_views>>

\* the slice of a query over its dense range
SliceCall(q) ==
    LET range == QueryGroupRange(metadata, groups, q) IN
    /\ IsSome(range) \in BOOLEAN
    /\ last' = [op |-> "slice", entity |-> None, carried |-> "none"]
    /\ UNCHANGED <<layout, groups, metadata, components, tick, world_entities, cells, held_views>>

\* get_mut(entity) on the view of T, dereferenced mutably and assigned
DerefMutCall(entity, T, value) ==
    LET s == metadata[T].storage_index
        r == CompMutStore(components[s], entity, value, tick)
    IN  /\ last' = [op |-> "deref_mut", entity |-> Some(entity), carried |-> "none"]
        /\ components' = [components EXCEPT ![s] = r.set]
        /\ UNCHANGED <<layout, groups, metadata, tick, world_entities, cells, held_views>>

\* the nested one-family layout under inserts and removes, the tick
\* advancing, and every view and query operation in between
NextViews ==
    \/ \E entity \in FirstEntities, tuple \in FirstGroupTuples, value \in Values :
           StoreInsert(entity, tuple, value)
    \/ \E entity \in FirstEntities, tuple \in FirstGroupTuples : StoreRemove(entity, tuple)
    \/ AdvanceTicks
    \/ \E entity \in FirstEntities, T \in {"A", "B"} : ContainsCall(entity, T)
    \/ \E q \in ViewQueries, entity \in FirstEntities, write \in BOOLEAN, value \in DataValues :
           GetCall(q, entity, write, value)
    \/ \E q \in ViewQueries, written \in SUBSET FirstEntities, value \in DataValues :
           IterCall(q, written, value)
    \/ \E T \in {"A", "B"} : SplitCall(T)
    \/ \E q \in ViewQueries : SliceCall(q)
    \/ \E entity \in FirstEntities, T \in {"A", "B"}, value \in DataValues :
           DerefMutCall(entity, T, value)

SpecViews == InitVersions /\ [][NextViews]_vars

----------------------------------------------------------------------------
(* SparseIter::next, one loop step at a time *)

\* the queries iterated here: over the types of the first group
IterQueries == {q \in RegisteredQueries : QueryTypes(q) \subseteq {"A", "B"}}

\* a SparseIter is alive; while it is, its views are borrowed and the
\* storage cannot change
Iterating == last.op = "sparse_iter"

\* data.entities: the entity slice chosen when the iterator was built
IterEntities(it) == SplitSparse(components, Views(metadata, it.query.base))

\* SparseIter::new: index 0; nothing has been asked of the iterator yet
SparseIterNew(q) ==
    [query |-> q, index |-> 0, pc |-> "new", yielded |-> << >>, exhausted |-> FALSE]

\* the loop body of next: the entity at the cursor, or the return of None
\* when there is none; the cursor moves on by one; the entity's item is
\* returned if exclude, include and the base views have it, or else the
\* loop goes round again: [it, ret]
SparseIterLoop(it) ==
    LET entities == IterEntities(it) IN
    IF it.index >= VecLen(entities)
    THEN [it |-> [it EXCEPT !.pc = "returned", !.exhausted = TRUE], ret |-> None]
    ELSE LET entity == entities[it.index]
             q == it.query
         IN  IF /\ ContainsNone(components, Views(metadata, q.exclude), entity)
                /\ ContainsAll(components, Views(metadata, q.include), entity)
                /\ IsSome(BaseGet(components, Views(metadata, q.base), entity))
             THEN [it |-> [it EXCEPT !.index = @ + 1, !.pc = "returned",
                                     !.yielded = Append(@, entity)],
                   ret |-> Some(entity)]
             ELSE [it |-> [it EXCEPT !.index = @ + 1], ret |-> None]

\* a query is iterated sparsely: the iterator is built
IterNewCall(q) ==
    /\ ~Iterating
    /\ last' = [op |-> "sparse_iter", entity |-> None, carried |-> SparseIterNew(q)]
    /\ UNCHANGED <<layout, groups, metadata, components, tick, world_entities, cells, held_views>>

\* next() is called on the iterator
NextCall ==
    /\ Iterating
    /\ last.carried.pc \in {"new", "returned"}
    /\ last' = [last EXCEPT !.carried.pc = "loop"]
    /\ UNCHANGED <<layout, groups, metadata, components, tick, world_entities, cells, held_views>>

\* a loop body that moves the cursor on only past an entity it returns
NextStepStuck ==
    LET r == SparseIterLoop(last.carried) IN
    /\ Iterating
    /\ last.carried.pc = "loop"
    /\ last' = IF r.it.pc = "returned"
               THEN [op |-> "sparse_iter", entity |-> r.ret, carried |-> r.it]
               ELSE last
    /\ UNCHANGED <<layout, groups, metadata, components, tick, world_entities, cells, held_views>>

\* one pass through the loop of next()
NextStep ==
    LET r == SparseIterLoop(last.carried) IN
    /\ Iterating
    /\ last.carried.pc = "loop"
    /\ last' = [op |-> "sparse_iter",
                entity |-> IF r.it.pc = "returned" THEN r.ret ELSE last.entity,
                carried |-> r.it]
    /\ UNCHANGED <<layout, groups, metadata, components, tick, world_entities, cells, held_views>>

\* the iterator is dropped between two calls
IterDropCall ==
    /\ Iterating
    /\ last.carried.pc \in {"new", "returned"}
    /\ last' = [op |-> "drop", entity |-> None, carried |-> "none"]
    /\ UNCHANGED <<layout, groups, metadata, components, tick, world_entities, cells, held_views>>

\* the nested one-family layout under inserts and removes while no iterator
\* is alive, and sparse iterators built, advanced and dropped
NextIter ==
    \/ \E entity \in FirstEntities, tuple \in FirstGroupTuples, value \in Values :
           ~Iterating /\ StoreInsert(entity, tuple, value)
    \/ \E entity \in FirstEntities, tuple \in FirstGroupTuples :
           ~Iterating /\ StoreRemove(entity, tuple)
    \/ \E q \in IterQueries : IterNewCall(q)
    \/ NextCall
    \/ NextStep
    \/ IterDropCall

SpecIter == InitVersions /\ [][NextIter]_vars

\* a call of next() runs on until it returns: nothing else runs meanwhile
FairSpecIter == SpecIter /\ WF_vars(NextStep)

----------------------------------------------------------------------------
(* Sparse-set and group invariants *)

\* the entities that are present in every storage of group g
GroupMembers(g) == {e \in Entities : HasAllOf(components, groups[g], e)}

\* the entities in the first n dense slots of storage s
DensePrefix(s, n) == {components[s].entities[i] : i \in 0..(n - 1)}

\* C1: every group's len is the number of entities present in all the
\* group's sparse sets, and the first len dense slots of each of those sets
\* hold exactly those entities.
C1_GroupLenExact ==
    \A g \in DOMAIN groups :
        /\ groups[g].len = Cardinality(GroupMembers(g))
        /\ \A s \in GroupStorages(groups[g]) :
               /\ groups[g].len <= SparseSetLen(components[s])
               /\ DensePrefix(s, groups[g].len) = GroupMembers(g)

\* the last call inserted again components that its entity already carried;
\* that entity is grouped, and a set of its group holds an ungrouped entity
C1_Witness ==
    /\ last.op = "insert"
    /\ last.carried = "all"
    /\ \E g \in DOMAIN groups :
           /\ Unwrap(last.entity) \in GroupMembers(g)
           /\ \E s \in GroupStorages(groups[g]) :
                  SparseSetLen(components[s]) > groups[g].len

\* C2: the grouped prefixes are co-sorted: position i < len holds the same
\* entity in every sparse set of the group.
C2_GroupCoSorted ==
    \A g \in DOMAIN groups :
        \A s1 \in GroupStorages(groups[g]), s2 \in GroupStorages(groups[g]) :
            /\ groups[g].len <= SparseSetLen(components[s1])
            /\ groups[g].len <= SparseSetLen(components[s2])
            /\ \A i \in 0..(groups[g].len - 1) :
                   components[s1].entities[i] = components[s2].entities[i]

\* after a remove that named a component its entity did not carry, two
\* entities are grouped, that entity among them, in a family with a subgroup
C2_Witness ==
    /\ last.op = "remove"
    /\ last.carried = "some"
    /\ \E g \in DOMAIN groups :
           /\ groups[g].len >= 2
           /\ Unwrap(last.entity) \in GroupMembers(g)
           /\ \E h \in DOMAIN groups :
                  groups[h].metadata.new_storage_start > groups[h].metadata.storage_start

\* C3: in every sparse set the three dense vectors have one length, every
\* dense position is mapped by the sparse vec, and every occupied sparse slot
\* points at the dense position that holds its entity.
C3_SparseSetConsistent ==
    \A s \in DOMAIN components :
        LET set == components[s] IN
        /\ VecLen(set.entities) = VecLen(set.data)
        /\ VecLen(set.entities) = VecLen(set.ticks)
        /\ \A i \in DOMAIN set.entities :
               set.sparse[set.entities[i].index] =
                   Some([dense |-> i, version |-> set.entities[i].version])
        /\ \A index \in DOMAIN set.sparse :
               IsSome(set.sparse[index]) =>
                   /\ Unwrap(set.sparse[index]).dense \in DOMAIN set.entities
                   /\ set.entities[Unwrap(set.sparse[index]).dense] =
                          EntityNew(index, Unwrap(set.sparse[index]).version)

\* a delete took components from an entity while another entity, of an index
\* used under a second generation, stays grouped
C3_Witness ==
    /\ last.op = "delete"
    /\ last.carried = "all"
    /\ \E g \in DOMAIN groups : groups[g].len >= 1
    /\ \E s \in DOMAIN components :
           \E i \in DOMAIN components[s].entities :
               components[s].entities[i].version # VersionFirst

----------------------------------------------------------------------------
(* Group info and query results against the layout *)

\* the family of the layout that lists type T (0: none)
FamilyOf(T) ==
    IF \E f \in DOMAIN layout : \E k \in DOMAIN layout[f].components :
           layout[f].components[k] = T
    THEN CHOOSE f \in DOMAIN layout : \E k \in DOMAIN layout[f].components :
             layout[f].components[k] = T
    ELSE 0

\* the global index of the first group of family f
FamilyGroupStart(f) ==
    Cardinality(UNION {{<<h, j>> : j \in DOMAIN layout[h].arities} : h \in 1..(f - 1)})

\* the global index of the smallest group of its family that holds type T
GroupOf(T) ==
    LET family == layout[FamilyOf(T)]
        slot   == CHOOSE k \in DOMAIN family.components : family.components[k] = T
        level  == CHOOSE j \in DOMAIN family.arities :
                      /\ family.arities[j] >= slot
                      /\ \A i \in 1..(j - 1) : family.arities[i] < slot
    IN  FamilyGroupStart(FamilyOf(T)) + level - 1

\* the types of the group with global index g
GroupTypes(g) ==
    {T \in Types : FamilyOf(T) # 0 /\ GroupOf(T) <= g
                   /\ FamilyGroupStart(FamilyOf(T)) <= g
                   /\ g < FamilyGroupStart(FamilyOf(T)) + Len(layout[FamilyOf(T)].arities)}

GroupedTypes == {T \in DOMAIN metadata : FamilyOf(T) # 0}

\* the entities a query must produce: in every base and include view, in no
\* exclude view
Matching(q) ==
    {e \in Entities :
        /\ \A k \in DOMAIN q.base :
               SparseContains(components[metadata[q.base[k]].storage_index], e)
        /\ \A k \in DOMAIN q.include :
               SparseContains(components[metadata[q.include[k]].storage_index], e)
        /\ \A k \in DOMAIN q.exclude :
               ~SparseContains(components[metadata[q.exclude[k]].storage_index], e)}

EntitiesOf(items) == {items[i].entity : i \in DOMAIN items}

\* C5: combining the group infos of two views is Some iff the two types are
\* of one family of the layout; the result then ends at the larger of the two
\* groups and its storage mask is the union of the two masks.
C5_CombineSomeIffSameFamily ==
    \A T \in GroupedTypes, U \in GroupedTypes :
        LET a == Unwrap(Borrow(metadata, T).group_info)
            b == Unwrap(Borrow(metadata, U).group_info)
            c == GroupInfoCombine(a, b)
        IN  /\ IsSome(c) <=> FamilyOf(T) = FamilyOf(U)
            /\ IsSome(c) =>
                   /\ Unwrap(c).groups.ptr + Unwrap(c).groups.len - 1
                          = IntMax(GroupOf(T), GroupOf(U))
                   /\ Unwrap(c).storage_mask = a.storage_mask \cup b.storage_mask

\* C6: whenever the exclusion window is returned for a query, the entities at
\* its dense positions are exactly the entities with every base and include
\* type and no excluded type: what sparse iteration of the query yields.
C6_ExclusionWindowIsSparseResult ==
    \A q \in RegisteredQueries :
        Len(q.exclude) > 0 =>
            LET range == QueryGroupRange(metadata, groups, q) IN
            IsSome(range) =>
                LET dense == DenseIter(metadata, components, q, Unwrap(range)) IN
                /\ ~dense.undefined
                /\ EntitiesOf(dense.items) = Matching(q)
                /\ EntitiesOf(dense.items) = EntitiesOf(SparseIter(metadata, components, q))

\* C7: whenever a query without exclude views is iterated densely over
\* 0..group.len, it yields exactly the entities with every base and include
\* type: the set the sparse strategy yields.
C7_DenseIsSparseResult ==
    \A q \in RegisteredQueries :
        Len(q.exclude) = 0 =>
            LET range == QueryGroupRange(metadata, groups, q) IN
            IsSome(range) =>
                LET dense == DenseIter(metadata, components, q, Unwrap(range)) IN
                /\ ~dense.undefined
                /\ EntitiesOf(dense.items) = Matching(q)
                /\ EntitiesOf(dense.items) = EntitiesOf(SparseIter(metadata, components, q))

\* the types of the base and include views of a query
IncludedTypes(q) == {(q.base \o q.include)[k] : k \in 1..(Len(q.base) + Len(q.include))}

\* the base and include views of the query are of one family of the layout
OneFamily(q) ==
    \E f \in DOMAIN layout : \A T \in IncludedTypes(q) : FamilyOf(T) = f

\* the largest group, by global index, that a base or include view belongs to
MaxGroupOf(q) ==
    CHOOSE g \in {GroupOf(T) : T \in IncludedTypes(q)} :
        \A T \in IncludedTypes(q) : GroupOf(T) <= g

\* C8: for views of one family and no exclude, the dense window is
\* Some(0..group.len) iff the queried types are exactly the types of the
\* group at the largest offset among the views; a strict subset or a set with
\* a gap gets None.
C8_DenseWindowIffFullGroup ==
    \A q \in RegisteredQueries :
        (Len(q.exclude) = 0 /\ OneFamily(q)) =>
            LET g      == MaxGroupOf(q)
                window == IF IncludedTypes(q) = GroupTypes(g)
                          THEN Some(RangeOf(0, groups[g].len))
                          ELSE None
                info   == FamilyGroupInfoOf(metadata, q.base \o q.include)
            IN  /\ QueryGroupRange(metadata, groups, q) = window
                /\ IsSome(info)
                /\ GroupLen(groups, Unwrap(info)) =
                       IF window = None THEN None ELSE Some(groups[g].len)

\* under arities [2, 3] over A, B, C with an entity in the inner group: the
\* views of A, B, C get the window 0..len, the views of A and C get none
C8_Witness ==
    /\ Len(layout) = 1
    /\ layout[1].arities = <<2, 3>>
    /\ groups[1].len >= 1
    /\ QueryGroupRange(metadata, groups,
           [base |-> <<"A", "B", "C">>, include |-> << >>, exclude |-> << >>])
           = Some(RangeOf(0, groups[1].len))
    /\ QueryGroupRange(metadata, groups,
           [base |-> <<"A">>, include |-> <<"C">>, exclude |-> << >>]) = None

\* the index of the base view sparse iteration must walk: a shortest one, the
\* first of the tuple among equals
ShortestBase(q) ==
    CHOOSE k \in DOMAIN q.base :
        /\ \A j \in DOMAIN q.base :
               SparseSetLen(components[metadata[q.base[k]].storage_index])
                   <= SparseSetLen(components[metadata[q.base[j]].storage_index])
        /\ \A j \in 1..(k - 1) :
               SparseSetLen(components[metadata[q.base[j]].storage_index])
                   > SparseSetLen(components[metadata[q.base[k]].storage_index])

\* the dense position of entity e in the shortest base view
ShortestPosition(q, e) ==
    Unwrap(SparseGet(components[metadata[q.base[ShortestBase(q)]].storage_index], e))

\* C9: sparse iteration yields exactly the entities present in every base and
\* include view and in no exclude view, each once, in the dense order of the
\* shortest base view.
C9_SparseIterExact ==
    \A q \in RegisteredQueries :
        LET items == SparseIter(metadata, components, q) IN
        /\ EntitiesOf(items) = Matching(q)
        /\ \A i \in DOMAIN items, j \in DOMAIN items :
               i < j =>
                   /\ items[i].entity # items[j].entity
                   /\ ShortestPosition(q, items[i].entity)
                          < ShortestPosition(q, items[j].entity)

\* some query with two base views and an exclude view has no group range;
\* its sparse iteration yields an entity and passes over another one
C9_Witness ==
    \E q \in RegisteredQueries :
        /\ Len(q.base) >= 2
        /\ Len(q.exclude) >= 1
        /\ QueryGroupRange(metadata, groups, q) = None
        /\ Len(SparseIter(metadata, components, q)) >= 1
        /\ Len(SparseIter(metadata, components, q))
               < VecLen(SplitSparse(components, Views(metadata, q.base)))

\* C10: get(e) is Some iff e is in every base and include view and in no
\* exclude view, and iter() produces e iff get(e) is Some.
C10_GetIffIterYields ==
    \A q \in RegisteredQueries :
        LET iter == QueryIter(metadata, components, groups, q) IN
        /\ ~iter.undefined
        /\ \A e \in Entities :
               /\ IsSome(QueryGet(metadata, components, q, e)) <=> e \in Matching(q)
               /\ e \in EntitiesOf(iter.items)
                      <=> IsSome(QueryGet(metadata, components, q, e))

----------------------------------------------------------------------------
(* Round trips, frames and returns of the ComponentSet operations *)

\* the storage indices of a tuple's types
TupleStorages(tuple) == {metadata[tuple[k]].storage_index : k \in DOMAIN tuple}

\* what a sparse set holds whatever its dense order: each entity with its
\* value and ticks
SetContents(set) ==
    {[entity |-> set.entities[i], data |-> set.data[i], ticks |-> set.ticks[i]] :
         i \in DOMAIN set.entities}

\* insert(entity, tuple) on the current storage, then remove of the same tuple
InsertThenRemove(entity, tuple, value) ==
    LET i == ComponentSetInsert(metadata, components, groups, entity, tuple, value, tick)
    IN  ComponentSetRemove(metadata, i.components, i.groups, entity, tuple)

\* C11: for an entity carrying none of the inserted types, insert followed by
\* remove of the same types returns Some(v) for each type and leaves every
\* sparse set (dense order, data, sparse mapping) and every group len exactly
\* as before the insert
C11_RoundTripRestoresAll ==
    \A entity \in FirstEntities, tuple \in RegisteredTuples, value \in Values :
        Carried(entity, tuple) = "none" =>
            LET r == InsertThenRemove(entity, tuple, value) IN
            /\ r.ret = [k \in DOMAIN tuple |-> Some(value)]
            /\ r.components = components
            /\ r.groups = groups

\* C11 (amended): the round trip returns Some(v) for each type, restores the
\* sparse sets of the inserted types and every group exactly, and leaves every
\* other sparse set with the same entities, values and ticks, consistent with
\* its sparse mapping, though possibly in another dense order
C11_RoundTripRestoresInserted ==
    \A entity \in FirstEntities, tuple \in RegisteredTuples, value \in Values :
        Carried(entity, tuple) = "none" =>
            LET r == InsertThenRemove(entity, tuple, value) IN
            /\ r.ret = [k \in DOMAIN tuple |-> Some(value)]
            /\ r.groups = groups
            /\ DOMAIN r.components = DOMAIN components
            /\ \A s \in TupleStorages(tuple) : r.components[s] = components[s]
            /\ \A s \in DOMAIN components :
                   /\ SetContents(r.components[s]) = SetContents(components[s])
                   /\ \A i \in DOMAIN r.components[s].entities :
                          SparseGet(r.components[s], r.components[s].entities[i]) = Some(i)

\* an entity grouped with another one behind it in the smaller group can
\* still be promoted by inserting the type the larger group adds
C11_Witness ==
    \E entity \in FirstEntities, tuple \in RegisteredTuples :
        /\ Carried(entity, tuple) = "none"
        /\ \E g \in DOMAIN groups :
               LET i == ComponentSetInsert(metadata, components, groups, entity, tuple, 0, tick)
               IN  /\ i.groups[g].len = groups[g].len + 1
                   /\ groups[g].len >= 1
        /\ \E s \in DOMAIN components \ TupleStorages(tuple) :
               SparseContains(components[s], entity)

\* the sparse-set invariant of C3 on any vector of sparse sets
SparseSetsConsistentIn(comps) ==
    \A s \in DOMAIN comps :
        LET set == comps[s] IN
        /\ VecLen(set.entities) = VecLen(set.data)
        /\ VecLen(set.entities) = VecLen(set.ticks)
        /\ \A i \in DOMAIN set.entities :
               set.sparse[set.entities[i].index] =
                   Some([dense |-> i, version |-> set.entities[i].version])
        /\ \A index \in DOMAIN set.sparse :
               IsSome(set.sparse[index]) =>
                   Unwrap(set.sparse[index]).dense \in DOMAIN set.entities

\* the group invariants of C1 and C2 on any storage: len counts the entities
\* present in all the group's sets, and position i < len holds one of them,
\* the same in every set of the group
GroupsExactIn(comps, grps) ==
    \A g \in DOMAIN grps :
        LET members == {e \in Entities : HasAllOf(comps, grps[g], e)} IN
        /\ grps[g].len = Cardinality(members)
        /\ \A s1 \in GroupStorages(grps[g]), s2 \in GroupStorages(grps[g]) :
               /\ grps[g].len <= SparseSetLen(comps[s1])
               /\ \A i \in 0..(grps[g].len - 1) :
                      /\ comps[s1].entities[i] \in members
                      /\ comps[s1].entities[i] = comps[s2].entities[i]

\* what C12 asks of the storage r left by delete_all or destroy of entity
GoneFrom(r, entity) ==
    /\ \A s \in DOMAIN r.components : ~SparseContains(r.components[s], entity)
    /\ DOMAIN r.groups = DOMAIN groups
    /\ \A g \in DOMAIN groups :
           r.groups[g].len = IF HasAllOf(components, groups[g], entity)
                             THEN groups[g].len - 1
                             ELSE groups[g].len
    /\ SparseSetsConsistentIn(r.components)
    /\ GroupsExactIn(r.components, r.groups)

\* C12: after delete_all(e), and after World::destroy(e) of a live e, e is
\* absent from every sparse set, every group that contained e is one shorter,
\* every other group keeps its len, and the sparse-set and group invariants
\* hold
C12_DeleteAllAndDestroy ==
    \A entity \in Entities :
        /\ GoneFrom(ComponentStorageDeleteAll(components, groups, entity), entity)
        /\ WorldContains(world_entities, entity) =>
               LET w == WorldDestroy(world_entities, components, groups, entity) IN
               /\ w.ret
               /\ ~WorldContains(w.entities, entity)
               /\ GoneFrom(w, entity)

\* a destroy has just returned true, and the entity still alive is in both
\* groups of the family: destroying it shortens both
C12_Witness ==
    /\ last.op = "destroy"
    /\ last.carried = "all"
    /\ \E entity \in Entities :
           /\ WorldContains(world_entities, entity)
           /\ \A g \in DOMAIN groups : HasAllOf(components, groups[g], entity)

\* C13: delete_all(e) applied twice leaves the storage as applied once;
\* World::destroy(e) returns true for a live e, and a second destroy(e)
\* returns false and changes nothing
C13_DeleteAllDestroyIdempotent ==
    \A entity \in Entities :
        /\ LET once  == ComponentStorageDeleteAll(components, groups, entity)
               twice == ComponentStorageDeleteAll(once.components, once.groups, entity)
           IN  /\ twice.components = once.components
               /\ twice.groups = once.groups
        /\ WorldContains(world_entities, entity) =>
               LET first  == WorldDestroy(world_entities, components, groups, entity)
                   second == WorldDestroy(first.entities, first.components,
                                          first.groups, entity)
               IN  /\ first.ret
                   /\ ~second.ret
                   /\ second.entities = first.entities
                   /\ second.components = first.components
                   /\ second.groups = first.groups

\* a destroy of an id destroyed before has just returned false, while the
\* id now alive at that index carries components and is grouped
C13_Witness ==
    /\ last.op = "destroy"
    /\ last.carried = "none"
    /\ world_entities[Unwrap(last.entity).index].version > Unwrap(last.entity).version
    /\ world_entities[Unwrap(last.entity).index].alive
    /\ \E g \in DOMAIN groups :
           HasAllOf(components, groups[g],
                    EntityNew(Unwrap(last.entity).index,
                              world_entities[Unwrap(last.entity).index].version))

\* the first n dense entities of storage s of comps, in order
PrefixSeq(comps, s, n) == [i \in 0..(n - 1) |-> comps[s].entities[i]]

\* the registered types, as one-type tuples
RegisteredTypes == {T \in Types : IsRegistered(metadata, T)}

\* group g holds the sparse set of type T
GroupIncludes(g, T) == metadata[T].storage_index \in GroupStorages(groups[g])

\* the entity is grouped in g before the call
GroupedIn(g, entity) ==
    /\ HasAllOf(components, groups[g], entity)
    /\ \A s \in GroupStorages(groups[g]) :
           Unwrap(SparseGet(components[s], entity)) < groups[g].len

\* what C14 asks of the storage r left by removing type T from entity; the
\* groups that do not lose the entity keep their prefix in order (ordered)
\* or as a set of entities
DemotedExactly(r, entity, T, ordered) ==
    /\ DOMAIN r.groups = DOMAIN groups
    /\ \A g \in DOMAIN groups :
           IF GroupIncludes(g, T) /\ GroupedIn(g, entity)
           THEN /\ r.groups[g].len = groups[g].len - 1
                /\ \A s \in GroupStorages(groups[g]) :
                       \A i \in 0..(r.groups[g].len - 1) :
                           r.components[s].entities[i] # entity
           ELSE /\ r.groups[g].len = groups[g].len
                /\ \A s \in GroupStorages(groups[g]) :
                       /\ r.groups[g].len <= SparseSetLen(r.components[s])
                       /\ IF ordered
                          THEN PrefixSeq(r.components, s, groups[g].len)
                                   = PrefixSeq(components, s, groups[g].len)
                          ELSE {r.components[s].entities[i] : i \in 0..(groups[g].len - 1)}
                                   = DensePrefix(s, groups[g].len)

\* C14: removing or deleting type T from e demotes e from exactly the groups
\* that include T in which e was grouped, each len one less; the other groups
\* keep their len and their grouped prefix, so e stays grouped there
C14_DemotedFromGroupsOfType ==
    \A entity \in FirstEntities, T \in RegisteredTypes :
        /\ DemotedExactly(ComponentSetRemove(metadata, components, groups, entity, <<T>>),
                          entity, T, TRUE)
        /\ DemotedExactly(ComponentSetDelete(metadata, components, groups, entity, <<T>>),
                          entity, T, TRUE)

\* C14 (amended): as C14, the groups that keep e holding the same entities in
\* their prefix, though the demotion may have reordered them
C14_DemotedPrefixSetKept ==
    \A entity \in FirstEntities, T \in RegisteredTypes :
        /\ DemotedExactly(ComponentSetRemove(metadata, components, groups, entity, <<T>>),
                          entity, T, FALSE)
        /\ DemotedExactly(ComponentSetDelete(metadata, components, groups, entity, <<T>>),
                          entity, T, FALSE)

\* an entity is grouped in a group and in the smaller group of its family,
\* and is not the last of the larger group: removing a type the larger group
\* adds swaps it inside the smaller group's prefix
C14_Witness ==
    \E entity \in FirstEntities, g \in DOMAIN groups, h \in DOMAIN groups :
        /\ GroupedIn(g, entity)
        /\ GroupedIn(h, entity)
        /\ GroupStorages(groups[h]) \subseteq GroupStorages(groups[g])
        /\ GroupStorages(groups[h]) # GroupStorages(groups[g])
        /\ groups[g].len >= 2
        /\ \E s \in GroupStorages(groups[h]) :
               components[s].entities[groups[g].len - 1] # entity

\* the entity carries the k-th type of the tuple
CarriesAt(entity, tuple, k) ==
    SparseContains(components[metadata[tuple[k]].storage_index], entity)

\* the value the entity holds for the k-th type of the tuple
ValueAt(entity, tuple, k) ==
    LET set == components[metadata[tuple[k]].storage_index] IN
    set.data[Unwrap(SparseGet(set, entity))]

\* the carried types of the tuple, in tuple order
CarriedPart(entity, tuple) ==
    SelectSeq(tuple, LAMBDA T : SparseContains(components[metadata[T].storage_index], entity))

\* C15: remove of a tuple returns for each type Some(value) iff the entity
\* carried it; afterwards the entity carries none of the types; a type not
\* carried gets None, its set is unchanged, and it changes no group len: the
\* groups end as after removing the carried types alone
C15_RemoveReturnsPerType ==
    \A entity \in FirstEntities, tuple \in RegisteredTuples :
        LET r == ComponentSetRemove(metadata, components, groups, entity, tuple)
            c == ComponentSetRemove(metadata, components, groups, entity,
                                    CarriedPart(entity, tuple))
        IN  /\ ~r.panicked
            /\ DOMAIN r.ret = DOMAIN tuple
            /\ \A k \in DOMAIN tuple :
                   /\ r.ret[k] = IF CarriesAt(entity, tuple, k)
                                 THEN Some(ValueAt(entity, tuple, k))
                                 ELSE None
                   /\ ~SparseContains(r.components[metadata[tuple[k]].storage_index], entity)
                   /\ ~CarriesAt(entity, tuple, k) =>
                          r.components[metadata[tuple[k]].storage_index]
                              = components[metadata[tuple[k]].storage_index]
            /\ \A g \in DOMAIN groups : r.groups[g].len = c.groups[g].len
            /\ Carried(entity, tuple) = "none" =>
                   r.components = components /\ r.groups = groups

\* an entity carries one type of a pair and not the other, is grouped, and
\* holds a value other than the one the second entity holds for that type
C15_Witness ==
    \E entity \in FirstEntities, other \in FirstEntities, tuple \in RegisteredTuples :
        /\ Len(tuple) = 2
        /\ Carried(entity, tuple) = "some"
        /\ \E g \in DOMAIN groups : GroupedIn(g, entity)
        /\ \E k \in DOMAIN tuple :
               /\ CarriesAt(entity, tuple, k)
               /\ CarriesAt(other, tuple, k)
               /\ ValueAt(entity, tuple, k) # ValueAt(other, tuple, k)

StaleFor(set, entity) ==
    /\ IsSome(set.sparse[entity.index])
    /\ Unwrap(set.sparse[entity.index]).version # entity.version

\* C17: for an id whose generation differs from the one stored for its
\* index, get, get_mut and contains report absent, remove and delete return
\* None and false, the query lookups find nothing, and the set is unmodified
C17_StaleIdRefused ==
    \A s \in DOMAIN components, entity \in Entities :
        StaleFor(components[s], entity) =>
            LET set == components[s] IN
            /\ SparseSetGet(set, entity) = None
            /\ SparseSetGetMut(set, entity, tick) = [set |-> set, ret |-> None]
            /\ ~SparseContains(set, entity)
            /\ SparseSetRemove(set, entity) = [set |-> set, ret |-> None]
            /\ SparseSetDelete(set, entity) = [set |-> set, ret |-> FALSE]
            /\ GetIndexFromSparse(set, entity) = None
            /\ ~IncludesSplit(set, entity)
            /\ GetIndexFromSplit(set, entity) = None

\* a remove has just been refused for an id of index 0 while a set holds
\* index 0 under another generation, grouped
C17_Witness ==
    /\ last.op = "remove"
    /\ last.carried = "none"
    /\ \E s \in DOMAIN components :
           /\ StaleFor(components[s], Unwrap(last.entity))
           /\ \E g \in DOMAIN groups :
                  /\ s \in GroupStorages(groups[g])
                  /\ groups[g].len >= 1
                  /\ components[s].entities[0].index = Unwrap(last.entity).index

\* C18: World operations on an id the allocator does not hold (never
\* created, or destroyed) do not panic and change nothing: append returns
\* Err(NoSuchEntity), remove None, delete nothing, destroy false, whatever
\* the component types named, registered or not
C18_UnknownEntityNoEffect ==
    \A entity \in Entities :
        ~WorldContains(world_entities, entity) =>
            /\ WorldDestroy(world_entities, components, groups, entity)
                   = [entities |-> world_entities, components |-> components,
                      groups |-> groups, ret |-> FALSE]
            /\ \A tuple \in Tuples :
                   /\ \A value \in DataValues :
                          WorldAppend(world_entities, metadata, components, groups,
                                      entity, tuple, value, tick)
                              = [components |-> components, groups |-> groups,
                                 ret |-> "NoSuchEntity", panicked |-> FALSE]
                   /\ WorldRemove(world_entities, metadata, components, groups, entity, tuple)
                          = [components |-> components, groups |-> groups,
                             ret |-> None, panicked |-> FALSE]
                   /\ WorldDelete(world_entities, metadata, components, groups, entity, tuple)
                          = [components |-> components, groups |-> groups,
                             panicked |-> FALSE]

\* an append has just been tried on a destroyed id whose index is in use
\* again, the entity now at that index being grouped
C18_Witness ==
    /\ last.op = "append"
    /\ ~WorldContains(world_entities, Unwrap(last.entity))
    /\ world_entities[Unwrap(last.entity).index].version > Unwrap(last.entity).version
    /\ world_entities[Unwrap(last.entity).index].alive
    /\ \E g \in DOMAIN groups :
           /\ groups[g].len >= 1
           /\ \E s \in GroupStorages(groups[g]) :
                  components[s].entities[0].index = Unwrap(last.entity).index

\* every view of type T dropped: [cells, views]
RECURSIVE ReleaseAll(_, _, _, _)
ReleaseAll(md, cls, vws, T) ==
    IF vws[T].comp > 0
    THEN LET r == CompDrop(md, cls, vws, T) IN ReleaseAll(md, r.cells, r.views, T)
    ELSE IF vws[T].comp_mut > 0
    THEN LET r == CompMutDrop(md, cls, vws, T) IN ReleaseAll(md, r.cells, r.views, T)
    ELSE [cells |-> cls, views |-> vws]

\* C19: of each sparse set either shared views or one exclusive view are
\* live, never both; an acquisition that would break this fails at the call
\* with BorrowConflict and leaves cells and held views as they were; any
\* other acquisition succeeds, and so does the refused one once the views
\* of the set are released
C19_SharedXorExclusive ==
    \A T \in RegisteredTypes :
        LET shared    == ComponentStorageBorrow(metadata, cells, held_views, T)
            exclusive == ComponentStorageBorrowMut(metadata, cells, held_views, T)
            released  == ReleaseAll(metadata, cells, held_views, T)
            refused   == [cells |-> cells, views |-> held_views, ret |-> "BorrowConflict"]
        IN  /\ held_views[T].comp_mut <= 1
            /\ held_views[T].comp_mut = 0 \/ held_views[T].comp = 0
            /\ IF held_views[T].comp_mut > 0
               THEN shared = refused
               ELSE /\ shared.ret = "Ok"
                    /\ shared.views[T].comp = held_views[T].comp + 1
            /\ IF held_views[T].comp_mut > 0 \/ held_views[T].comp > 0
               THEN exclusive = refused
               ELSE /\ exclusive.ret = "Ok"
                    /\ exclusive.views[T].comp_mut = 1
            /\ ComponentStorageBorrow(metadata, released.cells, released.views, T).ret = "Ok"
            /\ ComponentStorageBorrowMut(metadata, released.cells, released.views, T).ret = "Ok"

\* two shared views of one type and an exclusive view of another are held
\* on sparse sets that hold components
C19_Witness ==
    \E T \in RegisteredTypes, U \in RegisteredTypes :
        /\ held_views[T].comp = 2
        /\ held_views[U].comp_mut = 1
        /\ SparseSetLen(components[metadata[T].storage_index]) >= 1
        /\ SparseSetLen(components[metadata[U].storage_index]) >= 1

\* C20: borrow<T> and borrow_mut<T>, and the world's fetch of Comp<T> and
\* CompMut<T>, of a type that was neither registered nor named in the layout
\* fail with MissingComponent and acquire no borrow; of a registered type
\* they never fail with MissingComponent
C20_MissingComponentOnBorrow ==
    \A T \in Types :
        LET missing == [cells |-> cells, views |-> held_views, ret |-> "MissingComponent"] IN
        IF IsRegistered(metadata, T)
        THEN /\ ComponentStorageBorrow(metadata, cells, held_views, T).ret # "MissingComponent"
             /\ ComponentStorageBorrowMut(metadata, cells, held_views, T).ret # "MissingComponent"
             /\ WorldFetchComp(metadata, cells, held_views, T).ret # "MissingComponent"
             /\ WorldFetchCompMut(metadata, cells, held_views, T).ret # "MissingComponent"
        ELSE /\ ComponentStorageBorrow(metadata, cells, held_views, T) = missing
             /\ ComponentStorageBorrowMut(metadata, cells, held_views, T) = missing
             /\ WorldFetchComp(metadata, cells, held_views, T) = missing
             /\ WorldFetchCompMut(metadata, cells, held_views, T) = missing

\* a type is not registered while views of registered types are held, one
\* of them exclusive
C20_Witness ==
    /\ \E T \in Types : ~IsRegistered(metadata, T)
    /\ \E U \in RegisteredTypes : held_views[U].comp >= 1
    /\ \E U \in RegisteredTypes : held_views[U].comp_mut = 1

----------------------------------------------------------------------------
(* C21: registration is idempotent *)

\* the storages that belong to some group of the families
GroupedStorages == UNION {GroupStorages(groups[g]) : g \in DOMAIN groups}

\* C21: register<T> returns true exactly when T is not yet known to the
\* storage (neither registered before nor named by the layout); it then adds
\* one empty sparse set, outside every group, whose metadata has empty insert,
\* delete and storage masks, and keeps every other set and every other
\* metadata; on a known T it returns false and changes nothing
C21_RegisterIdempotent ==
    \A T \in Types :
        LET r == ComponentStorageRegister(metadata, components, T) IN
        /\ r.ret = ~IsRegistered(metadata, T)
        /\ r.ret =>
              /\ DOMAIN r.metadata = DOMAIN metadata \cup {T}
              /\ \A U \in DOMAIN metadata : r.metadata[U] = metadata[U]
              /\ r.metadata[T].insert_mask = {}
              /\ r.metadata[T].delete_mask = {}
              /\ r.metadata[T].storage_mask = {}
              /\ r.metadata[T].storage_index \notin GroupedStorages
              /\ r.metadata[T].storage_index \notin
                     {metadata[U].storage_index : U \in DOMAIN metadata}
              /\ VecLen(r.components) = VecLen(components) + 1
              /\ \A s \in DOMAIN components : r.components[s] = components[s]
              /\ r.components[r.metadata[T].storage_index] = EmptySparseSet
        /\ ~r.ret =>
              /\ r.metadata = metadata
              /\ r.components = components
              /\ ComponentStorageRegister(r.metadata, r.components, T) = r

\* register::<D>() returned true on the layout without D, after which an
\* entity was given a D next to a populated group
C21_Witness ==
    /\ IsRegistered(metadata, "D")
    /\ metadata["D"].insert_mask = {}
    /\ metadata["D"].storage_index \notin GroupedStorages
    /\ SparseSetLen(components[metadata["D"].storage_index]) > 0
    /\ \E g \in DOMAIN groups : groups[g].len > 0

----------------------------------------------------------------------------
(* C22: the world tick *)

\* C22: the world tick starts at 1 and is never 0; advance_ticks returns Ok
\* and adds one while the tick is below the largest tick; at the largest tick
\* it sets the tick to 1 and returns TickOverflow, for that one call only:
\* after it the calls return Ok and the tick increases again
C22_TickNeverZeroWrapsToOne ==
    LET r == WorldAdvanceTicks(tick) IN
    /\ tick \in 1..TicksMax
    /\ last.op = "new" => tick = 1
    /\ tick < TicksMax => r = [tick |-> tick + 1, ret |-> "Ok"]
    /\ tick = TicksMax =>
          /\ r = [tick |-> 1, ret |-> "TickOverflow"]
          /\ WorldAdvanceTicks(r.tick) = [tick |-> 2, ret |-> "Ok"]
    /\ last.op = "advance_ticks" =>
          /\ last.carried \in {"Ok", "TickOverflow"}
          /\ last.carried = "TickOverflow" <=> tick = 1

\* the tick has passed the largest tick and increased again: a component
\* stamped at the largest tick is still stored at tick 2
C22_Witness ==
    /\ tick = 2
    /\ last = [op |-> "advance_ticks", entity |-> None, carried |-> "Ok"]
    /\ \E s \in DOMAIN components : \E d \in DOMAIN components[s].ticks :
           components[s].ticks[d].added = TicksMax

----------------------------------------------------------------------------
(* C23: the change stamps *)

\* the (added, changed) stamps of the slot an entity holds in a set
TicksOf(set, entity) == set.ticks[Unwrap(SparseGet(set, entity))]

\* every entity the set held before and holds after has the stamps it had
StampsCarried(before, after, except) ==
    \A entity \in FirstEntities \ except :
        (SparseContains(before, entity) /\ SparseContains(after, entity)) =>
            TicksOf(after, entity) = TicksOf(before, entity)

\* C23: a component inserted at tick T has added = T; a mutable access at a
\* later tick T' sets changed = T' and leaves added = T; the swaps of the
\* group and ungroup passes and the swap-removes of other entities carry the
\* (added, changed) of every slot along with its entity
C23_StampsFollowEntity ==
    /\ \A entity \in FirstEntities, tuple \in FirstGroupTuples, value \in DataValues :
           LET r == ComponentSetInsert(metadata, components, groups, entity, tuple, value, tick)
               S == TupleStorages(tuple)
           IN  /\ \A s \in S :
                      /\ ~SparseContains(components[s], entity) =>
                             TicksOf(r.components[s], entity) = [added |-> tick, changed |-> tick]
                      /\ StampsCarried(components[s], r.components[s], {entity})
               /\ \A s \in DOMAIN components \ S :
                      StampsCarried(components[s], r.components[s], {})
    /\ \A entity \in FirstEntities, tuple \in FirstGroupTuples :
           LET r == ComponentSetRemove(metadata, components, groups, entity, tuple) IN
           \A s \in DOMAIN components : StampsCarried(components[s], r.components[s], {})
    /\ \A entity \in FirstEntities, s \in DOMAIN components :
           LET w == CompMutWrite(components[s], entity, tick) IN
           /\ StampsCarried(components[s], w.set, {entity})
           /\ SparseContains(components[s], entity) =>
                 /\ TicksOf(w.set, entity).changed = tick
                 /\ TicksOf(w.set, entity).added = TicksOf(components[s], entity).added
                 /\ TicksOf(w.set, entity).added <= tick
                 /\ w.set.entities = components[s].entities
                 /\ w.set.sparse = components[s].sparse

\* a set of two slots in which the slot added at the later tick stands before
\* the one added at tick 1, which a swap moved and a write stamped at tick 2
C23_Witness ==
    /\ tick = 2
    /\ groups[0].len = 1
    /\ \E s \in DOMAIN components :
           /\ SparseSetLen(components[s]) = 2
           /\ components[s].ticks[0].added = 2
           /\ components[s].ticks[1] = [added |-> 1, changed |-> 2]

----------------------------------------------------------------------------
(* C25: only a mutable dereference marks a component changed *)

\* C25: obtaining the mutable reference without dereferencing it mutably, or
\* only reading through it, leaves the slot's changed stamp (and the whole
\* set) as it was; the mutable dereference marks the slot changed and touches
\* nothing else; no use of the reference alters added
C25_OnlyDerefMutMarksChanged ==
    \A entity \in FirstEntities, s \in DOMAIN components :
           LET set == components[s]
               o == CompMutObtain(set, entity, tick)
               r == CompMutRead(set, entity, tick)
               w == CompMutWrite(set, entity, tick)
           IN  /\ o.set = set
               /\ r.set = set
               /\ r.ret = SparseSetGet(set, entity)
               /\ w.ret = SparseSetGet(set, entity)
               /\ SparseContains(set, entity) =>
                      LET d == Unwrap(SparseGet(set, entity)) IN
                      w.set = [set EXCEPT !.ticks[d].changed = tick]
               /\ ~SparseContains(set, entity) => w.set = set

\* at tick 2 a set holds one slot still stamped changed = 1, which a read
\* leaves so, next to a slot added at tick 1 and marked changed at tick 2
C25_Witness ==
    /\ tick = 2
    /\ \E s \in DOMAIN components :
           /\ SparseSetLen(components[s]) = 2
           /\ \E d \in {0, 1} :
                  /\ components[s].ticks[d] = [added |-> 1, changed |-> 1]
                  /\ components[s].ticks[1 - d] = [added |-> 1, changed |-> 2]

----------------------------------------------------------------------------
(* C24: the change-tick filters *)

\* the queries over one filtered base view of the first group's types
FilteredQueries ==
    {q \in RegisteredQueries : Len(q.base) = 1 /\ QueryTypes(q) \subseteq {"A", "B"}}

\* the ticks a system may have last run at
LastSystemTicks == 0..(MaxTick + 1)

\* what the filter is to let through: the slot of the entity in the base view
PassesFilter(F, q, entity, last_system_tick) ==
    LET stamps == TicksOf(components[metadata[q.base[1]].storage_index], entity) IN
    \/ F = "Passthrough"
    \/ F = "Added" /\ stamps.added >= last_system_tick
    \/ F = "Changed" /\ stamps.changed >= last_system_tick

\* C24: the filter is evaluated on every candidate of the dense and of the
\* sparse iteration: the filtered iteration yields, in order, the unfiltered
\* candidates whose slot passes -- Added iff added >= last_system_tick,
\* Changed iff changed >= last_system_tick, Passthrough always; a component
\* changed at tick T is reported at last-system-tick T - 1 and not at T + 1
C24_FilterOnEveryCandidate ==
    \A q \in FilteredQueries, F \in ChangeTicksFilters, t \in LastSystemTicks :
        LET all == QueryIter(metadata, components, groups, q) IN
        /\ ~all.undefined
        /\ FilteredQueryIter(F, metadata, components, groups, q, tick, t) =
               SelectSeq(all.items, LAMBDA c : PassesFilter(F, q, c.entity, t))
        /\ \A k \in DOMAIN all.items :
               LET c == all.items[k]
                   T == TicksOf(components[metadata[q.base[1]].storage_index], c.entity).changed
               IN  /\ \E j \in DOMAIN FilteredQueryIter("Changed", metadata, components, groups, q, tick, T - 1) :
                          FilteredQueryIter("Changed", metadata, components, groups, q, tick, T - 1)[j] = c
                   /\ \A j \in DOMAIN FilteredQueryIter("Changed", metadata, components, groups, q, tick, T + 1) :
                          FilteredQueryIter("Changed", metadata, components, groups, q, tick, T + 1)[j] # c

\* the group (A, B) holds two entities, iterated densely, one changed at
\* tick 2 and one last changed at tick 1: Changed at last-system-tick 2 lets
\* one of the two candidates through
C24_Witness ==
    LET q == [base |-> <<"A">>, include |-> <<"B">>, exclude |-> << >>] IN
    /\ tick = 2
    /\ groups[0].len = 2
    /\ IsSome(QueryGroupRange(metadata, groups, q))
    /\ Len(QueryIter(metadata, components, groups, q).items) = 2
    /\ Len(FilteredQueryIter("Changed", metadata, components, groups, q, tick, 2)) = 1
    /\ Len(FilteredQueryIter("Added", metadata, components, groups, q, tick, 2)) = 0

----------------------------------------------------------------------------
(* C26: the allocator never gives an id out twice *)

\* the last call was create() and returned this id
IssuedNow(entity) == last.op = "create" /\ last.entity = Some(entity)

\* the last call was destroy(entity) and returned true
DestroyedNow(entity) ==
    last = [op |-> "destroy", entity |-> Some(entity), carried |-> "all"]

\* C26: an id the allocator has returned is never returned again; an index
\* given out again comes with a strictly larger generation; the generation
\* never wraps: an index destroyed at the last version is not given out
\* again; and contains(e) is false forever once e has been destroyed
C26_NeverReissued ==
    \A e \in AllocatorEntities :
        /\ [](IssuedNow(e) => [](~IssuedNow(e) => []~IssuedNow(e)))
        /\ [](IssuedNow(e) =>
                [](\A f \in AllocatorEntities :
                       (f.index = e.index /\ f # e /\ IssuedNow(f)) => f.version > e.version))
        /\ [](DestroyedNow(e) => []~WorldContains(world_entities, e))
        /\ []((DestroyedNow(e) /\ e.version = VersionLast) =>
                [](\A f \in AllocatorEntities : f.index = e.index => ~IssuedNow(f)))

\* index 0 was destroyed at the last version and is retired, while index 1
\* has just been given out again, at its second version
C26_Witness ==
    /\ world_entities[0].retired
    /\ ~world_entities[0].alive
    /\ IssuedNow(EntityNew(1, VersionFirst + 1))
    /\ WorldContains(world_entities, EntityNew(1, VersionFirst + 1))
    /\ ~WorldContains(world_entities, EntityNew(1, VersionFirst))

----------------------------------------------------------------------------
(* C27: a conflicting layout is rejected *)

\* the component types the families name
LayoutTypes(families) ==
    UNION {{families[f].components[k] : k \in DOMAIN families[f].components} :
              f \in DOMAIN families}

\* the family whose arities the group of a global index was built from
FamilyOfGroup(families, g) ==
    CHOOSE f \in DOMAIN families :
        LET before == Cardinality(UNION {{<<h, j>> : j \in DOMAIN families[h].arities} :
                                            h \in 1..(f - 1)})
        IN  g \in before..(before + Len(families[f].arities) - 1)

\* no type has two storage slots and no two families share a sparse set:
\* each named type has one slot of its own, and the storage ranges of two
\* groups start together (one family) or are disjoint (two families)
OneSlotPerType(md, comps, grps, families) ==
    /\ DOMAIN md = LayoutTypes(families)
    /\ VecLen(comps) = Cardinality(LayoutTypes(families))
    /\ \A T, U \in DOMAIN md : md[T].storage_index = md[U].storage_index => T = U
    /\ \A T \in DOMAIN md : md[T].storage_index \in DOMAIN comps
    /\ \A g, h \in DOMAIN grps :
           IF FamilyOfGroup(families, g) = FamilyOfGroup(families, h)
           THEN grps[g].metadata.storage_start = grps[h].metadata.storage_start
           ELSE GroupStorages(grps[g]) \cap GroupStorages(grps[h]) = {}
    /\ \A g \in DOMAIN grps : GroupStorages(grps[g]) \subseteq DOMAIN comps

\* C27: constructing a layout in which a type appears in more than one family,
\* or whose arities are not strictly increasing, returns LayoutConflict and
\* builds nothing; so a storage is only ever built in which every type has
\* one slot and no two families share a sparse set
C27_ConflictingLayoutRejected ==
    /\ last.op = "new" => components = EmptyVec /\ groups = EmptyVec
    /\ (last.op = "layout" /\ last.carried = "LayoutConflict") =>
           /\ SharedAcrossFamilies(layout) \/ ~AritiesIncreasing(layout)
           /\ components = EmptyVec /\ groups = EmptyVec /\ metadata = EmptyVec
    /\ (last.op = "layout" /\ last.carried = "Ok") =>
           /\ ~SharedAcrossFamilies(layout) /\ AritiesIncreasing(layout)
           /\ OneSlotPerType(metadata, components, groups, layout)

\* the families (A, B) and (B, C) were passed: LayoutConflict came back and
\* no storage was built
C27_Witness ==
    /\ last = [op |-> "layout", entity |-> None, carried |-> "LayoutConflict"]
    /\ SharedAcrossFamilies(layout)
    /\ Len(layout) = 2
    /\ layout[1].components # layout[2].components
    /\ components = EmptyVec

----------------------------------------------------------------------------
(* C28: the order of entities *)

\* C28: entities are totally ordered by generation first and index second:
\* the answer of cmp is Less for the smaller generation, and for equal
\* generations for the smaller index; it is Equal exactly for the same index
\* and generation; the reverse comparison answers the reverse; the order is
\* transitive
C28_OrderedByVersionThenIndex ==
    last.op = "cmp" =>
        LET a == Unwrap(last.entity)[1]
            b == Unwrap(last.entity)[2]
            r == last.carried
        IN  /\ r \in {"Less", "Equal", "Greater"}
            /\ r = "Equal" <=> (a.index = b.index /\ a.version = b.version)
            /\ r = "Less" <=>
                   \/ a.version < b.version
                   \/ a.version = b.version /\ a.index < b.index
            /\ r = "Less" <=> EntityCmp(b, a) = "Greater"
            /\ r = "Greater" <=> EntityCmp(b, a) = "Less"
            /\ \A c \in AllocatorEntities :
                   (r = "Less" /\ EntityCmp(b, c) = "Less") => EntityCmp(a, c) = "Less"

\* the id of index 1 at the first version was compared with the id of
\* index 0 at the last version and found Less: the generation decides
C28_Witness ==
    /\ last.op = "cmp"
    /\ Unwrap(last.entity) = <<EntityNew(1, VersionFirst), EntityNew(0, VersionLast)>>
    /\ last.carried = "Less"

----------------------------------------------------------------------------
(* C29: the group prefixes at every point inside insert and remove *)

\* for every group, the first len dense slots of each of its storages hold
\* the same entities in the same order, each found there by its sparse entry
PrefixesAgree(comps, grps) ==
    \A g \in DOMAIN grps :
        \A s \in GroupStorages(grps[g]) :
            /\ grps[g].len <= SparseSetLen(comps[s])
            /\ \A d \in 0..(grps[g].len - 1) :
                   /\ comps[s].entities[d] =
                          comps[grps[g].metadata.storage_start].entities[d]
                   /\ SparseGet(comps[s], comps[s].entities[d]) = Some(d)

\* the entities of the grouped prefixes, storage by storage, group by group
PrefixesOf(comps, grps) ==
    [g \in DOMAIN grps |->
        [s \in GroupStorages(grps[g]) |->
            [d \in 0..(grps[g].len - 1) |-> comps[s].entities[d]]]]

\* C29: at every point inside insert (after each per-type sparse-set insert
\* and after each step of the group pass) and inside remove and delete (after
\* each step of the ungroup pass and after each per-type swap-remove), for
\* every group the first len dense slots of each of its storages hold
\* entities present in all its storages, in the same order; a per-type insert
\* or swap-remove moves no entity into or out of a grouped prefix
C29_PrefixesAgreeInsideCalls ==
    \A entity \in FirstEntities, tuple \in RegisteredTuples :
        LET n == Len(tuple)
            G == VecLen(groups)
            here == [components |-> components, groups |-> groups]
            inserted == [k \in 0..n |->
                            ComponentSetInsertPoint(metadata, components, groups, entity,
                                                    tuple, 1, tick, k, 0)]
            grouped == [j \in 0..G |->
                           ComponentSetInsertPoint(metadata, components, groups, entity,
                                                   tuple, 1, tick, n, j)]
            ungrouped == [j \in 0..G |->
                             ComponentSetRemovePoint(metadata, components, groups, entity,
                                                     tuple, j, 0)]
            removed == [k \in 0..n |->
                           ComponentSetRemovePoint(metadata, components, groups, entity,
                                                   tuple, 0, k)]
            done == ComponentSetInsert(metadata, components, groups, entity, tuple, 1, tick)
            gone == ComponentSetRemove(metadata, components, groups, entity, tuple)
        IN  /\ inserted[0] = here
            /\ ungrouped[G] = here
            /\ grouped[G] = [components |-> done.components, groups |-> done.groups]
            /\ removed[n] = [components |-> gone.components, groups |-> gone.groups]
            /\ \A k \in 0..n : PrefixesAgree(inserted[k].components, inserted[k].groups)
            /\ \A j \in 0..G : PrefixesAgree(grouped[j].components, grouped[j].groups)
            /\ \A j \in 0..G : PrefixesAgree(ungrouped[j].components, ungrouped[j].groups)
            /\ \A k \in 0..n : PrefixesAgree(removed[k].components, removed[k].groups)
            /\ \A k \in 1..n :
                   /\ PrefixesOf(inserted[k].components, inserted[k].groups) =
                          PrefixesOf(inserted[k - 1].components, inserted[k - 1].groups)
                   /\ PrefixesOf(removed[k].components, removed[k].groups) =
                          PrefixesOf(removed[k - 1].components, removed[k - 1].groups)

\* both entities are in the first group of a family and one of them in its
\* second group as well: a remove of a type of the first group demotes that
\* one from both and swap-removes it behind the prefixes
C29_Witness ==
    /\ VecLen(groups) = 2
    /\ groups[0].len = 2
    /\ groups[1].len = 1
    /\ groups[1].metadata.storage_start = groups[0].metadata.storage_start
    /\ \A s \in GroupStorages(groups[0]) : SparseSetLen(components[s]) = 2

----------------------------------------------------------------------------
(* C30: families are independent of each other *)

\* the families of the types of a tuple; 0 stands for a type outside the layout
TupleFamilies(tuple) == {FamilyOf(tuple[k]) : k \in DOMAIN tuple}

\* the groups of the families of the tuple's types
TouchedGroups(tuple) ==
    {g \in DOMAIN groups : FamilyOfGroup(layout, g) \in TupleFamilies(tuple)}

\* the storages a call on the tuple may touch: those of its types and those
\* of the groups of their families
TouchedStorages(tuple) ==
    TupleStorages(tuple) \cup UNION {GroupStorages(groups[g]) : g \in TouchedGroups(tuple)}

\* the types of the tuple that belong to family f, in tuple order
TuplePart(tuple, f) == SelectSeq(tuple, LAMBDA T : FamilyOf(T) = f)

\* the tuple with its types in the opposite order
TupleReversed(tuple) == [k \in DOMAIN tuple |-> tuple[Len(tuple) + 1 - k]]

\* two results agree on the storages and groups of one family
SameOnFamily(r, q, tuple, f) ==
    /\ \A s \in TupleStorages(TuplePart(tuple, f)) : r.components[s] = q.components[s]
    /\ \A g \in DOMAIN groups :
           FamilyOfGroup(layout, g) = f =>
               /\ r.groups[g] = q.groups[g]
               /\ \A s \in GroupStorages(groups[g]) : r.components[s] = q.components[s]

\* C30: an insert or remove leaves every group and every sparse set outside
\* the families of its types (and outside its own types, for types of no
\* family) unchanged; for a tuple spanning several families what happens in
\* each family is what the call on that family's types alone does, whatever
\* the order of the types: a group that fails to match in one family does
\* not stop the promotion in another
C30_FamiliesIndependent ==
    \A entity \in FirstEntities, tuple \in RegisteredTuples :
        LET ins == ComponentSetInsert(metadata, components, groups, entity, tuple, 1, tick)
            rem == ComponentSetRemove(metadata, components, groups, entity, tuple)
            rins == ComponentSetInsert(metadata, components, groups, entity,
                                       TupleReversed(tuple), 1, tick)
            rrem == ComponentSetRemove(metadata, components, groups, entity,
                                       TupleReversed(tuple))
        IN  /\ \A s \in DOMAIN components \ TouchedStorages(tuple) :
                   /\ ins.components[s] = components[s]
                   /\ rem.components[s] = components[s]
            /\ \A g \in DOMAIN groups \ TouchedGroups(tuple) :
                   /\ ins.groups[g] = groups[g]
                   /\ rem.groups[g] = groups[g]
            /\ rins.components = ins.components /\ rins.groups = ins.groups
            /\ rrem.components = rem.components /\ rrem.groups = rem.groups
            /\ \A f \in TupleFamilies(tuple) :
                   LET part == TuplePart(tuple, f) IN
                   /\ SameOnFamily(ins, ComponentSetInsert(metadata, components, groups,
                                                           entity, part, 1, tick), tuple, f)
                   /\ SameOnFamily(rem, ComponentSetRemove(metadata, components, groups,
                                                           entity, part), tuple, f)

\* two families: an entity carries A without B, so it matches no group of
\* the first family, and is grouped in the second family all the same
C30_Witness ==
    /\ Len(layout) = 2
    /\ groups[0].len = 0
    /\ groups[1].len = 1
    /\ \E entity \in FirstEntities :
           /\ SparseContains(components[metadata["A"].storage_index], entity)
           /\ ~SparseContains(components[metadata["B"].storage_index], entity)
           /\ SparseContains(components[metadata["C"].storage_index], entity)
           /\ SparseContains(components[metadata["D"].storage_index], entity)

----------------------------------------------------------------------------
(* C31: a view over an ungrouped type forces sparse iteration *)

\* the registered types no family of the layout lists
UngroupedTypes == {T \in DOMAIN metadata : FamilyOf(T) = 0}

----------------------------------------------------------------------------
(* C32: view and query operations leave the structure alone *)

ViewOps == {"contains", "get", "iter", "split", "slice", "deref_mut"}

\* the slots of the set whose data or changed tick differs in the next set
SlotsTouched(before, after) ==
    {d \in DOMAIN before.data :
        before.data[d] # after.data[d] \/ before.ticks[d].changed # after.ticks[d].changed}

\* C32: a step of contains, get, iter, split, slice or a mutable dereference
\* changes no group (so no len), no set's dense entities or sparse vec and
\* no added tick; the mutable dereference of an entity's component, alone
\* or on the reference get hands out, changes at most the data and the
\* changed tick of that entity's slot.
C32_ViewsLeaveStructure ==
    [][last'.op \in ViewOps /\ last' # last =>
          /\ groups' = groups
          /\ metadata' = metadata
          /\ DOMAIN components' = DOMAIN components
          /\ \A s \in DOMAIN components :
                 /\ components'[s].entities = components[s].entities
                 /\ components'[s].sparse = components[s].sparse
                 /\ DOMAIN components'[s].data = DOMAIN components[s].data
                 /\ DOMAIN components'[s].ticks = DOMAIN components[s].ticks
                 /\ \A d \in DOMAIN components[s].ticks :
                        components'[s].ticks[d].added = components[s].ticks[d].added
          /\ last'.op \in {"deref_mut", "get"} =>
                 \A s \in DOMAIN components :
                     SlotsTouched(components[s], components'[s]) \subseteq
                         {d \in DOMAIN components[s].entities :
                             components[s].entities[d] = Unwrap(last'.entity)}
          /\ last'.op \in {"contains", "split", "slice"} => components' = components
      ]_vars

\* a mutable dereference has just stored another value at a later tick in a
\* slot of a full group: the slot is added at 1, changed at 2
C32_Witness ==
    /\ last.op = "deref_mut"
    /\ tick = 2
    /\ groups[0].len = 2
    /\ \E s \in GroupStorages(groups[0]) :
           LET d == Unwrap(SparseGet(components[s], Unwrap(last.entity))) IN
           /\ components[s].ticks[d] = [added |-> 1, changed |-> 2]
           /\ components[s].data[d] = 2
           /\ components[s].data[1 - d] = 1
           /\ components[s].ticks[1 - d] = [added |-> 1, changed |-> 1]

----------------------------------------------------------------------------
(* C33: a tuple with an unregistered type *)

\* the tuples of the storage that name an unregistered type
MissingTuples == {tuple \in Tuples : FirstMissing(metadata, tuple) # 0}

\* the call left the sparse sets and the groups as they are now
Untouched(r) == r.panicked /\ r.components = components /\ r.groups = groups

\* remove and delete with a tuple naming an unregistered type, at any
\* position, panic with every sparse set and group len as before the call
RemoveDeletePanicBeforeAnyChange ==
    \A entity \in FirstEntities, tuple \in MissingTuples :
        /\ Untouched(ComponentSetRemove(metadata, components, groups, entity, tuple))
        /\ Untouched(ComponentSetDelete(metadata, components, groups, entity, tuple))

\* C33: insert, remove and delete with a tuple naming an unregistered type,
\* at any position, panic with MissingComponent before a sparse set or a
\* group len is modified, and the sparse-set and group invariants hold in
\* the state the panic leaves.
C33_PanicBeforeAnyChange ==
    /\ RemoveDeletePanicBeforeAnyChange
    /\ \A entity \in FirstEntities, tuple \in MissingTuples, value \in Values :
           Untouched(ComponentSetInsert(metadata, components, groups,
                                        entity, tuple, value, tick))
    /\ Halted =>
           /\ SparseSetsConsistentIn(components)
           /\ GroupsExactIn(components, groups)

----------------------------------------------------------------------------
(* C34: the exclusion window *)

\* the offset of group g inside its own family
FamilyOffset(g) ==
    LET f == CHOOSE h \in DOMAIN layout :
                 FamilyGroupStart(h) <= g /\ g < FamilyGroupStart(h) + Len(layout[h].arities)
    IN  g - FamilyGroupStart(f)

\* the group of the layout at the largest offset among the views of q
LastGroupOf(q) ==
    CHOOSE g \in {GroupOf(T) : T \in QueryTypes(q)} :
        \A T \in QueryTypes(q) : GroupOf(T) <= g

\* the window is the one of group g against the group before it, both of
\* the same family, and lies inside every sparse set of that parent group
WellFormedWindow(window, g) ==
    /\ FamilyOffset(g) >= 1
    /\ FamilyOffset(g - 1) = FamilyOffset(g) - 1
    /\ window = RangeOf(groups[g].len, groups[g - 1].len)
    /\ 0 <= window.start
    /\ window.start <= window.end
    /\ \A s \in GroupStorages(groups[g - 1]) : window.end <= SparseSetLen(components[s])

\* C34: every exclusion window returned, by the slice form and by the
\* family-and-offset form, is the range group.len..parent.len of a group at
\* offset >= 1 of its own family and of the group before it in that family,
\* it is not empty-reversed and lies inside the parent group's sets; and
\* each group of a family is at most as long as the group before it.
C34_ExclusionWindowWellFormed ==
    /\ \A g \in DOMAIN groups :
           FamilyOffset(g) >= 1 => groups[g].len <= groups[g - 1].len
    /\ \A q \in RegisteredQueries :
           Len(q.exclude) > 0 =>
               LET slices   == QueryGroupRange(metadata, groups, q)
                   families == QueryFamilyRange(metadata, groups, q)
               IN  /\ IsSome(slices) =>
                          /\ QueryTypes(q) \subseteq GroupedTypes
                          /\ WellFormedWindow(Unwrap(slices), LastGroupOf(q))
                   /\ IsSome(families) =>
                          /\ QueryTypes(q) \subseteq GroupedTypes
                          /\ WellFormedWindow(Unwrap(families), LastGroupOf(q))

\* under arities [2, 4]: one entity in the outer group only, one in both;
\* the views of A and B excluding C and D get the window 1..2
C34_Witness ==
    /\ Len(layout) = 1
    /\ layout[1].arities = <<2, 4>>
    /\ groups[0].len = 2
    /\ groups[1].len = 1
    /\ LET q == [base |-> <<"A", "B">>, include |-> << >>, exclude |-> <<"C", "D">>] IN
       /\ QueryGroupRange(metadata, groups, q) = Some(RangeOf(1, 2))
       /\ QueryFamilyRange(metadata, groups, q) = Some(RangeOf(1, 2))

----------------------------------------------------------------------------
(* C35: only live entities are stored *)

\* the entities in the dense lists of the sparse sets
StoredEntities ==
    UNION {{components[s].entities[i] : i \in DOMAIN components[s].entities} :
              s \in DOMAIN components}

\* C35: under create, extend, append, remove, delete, destroy and clear,
\* every entity stored in a sparse set is live; so no index is stored
\* under two generations, and for every stored entity and every sparse set
\* the membership test by sparse index alone answers as the test by the
\* full entity does.
C35_StoredEntitiesLive ==
    /\ \A e \in StoredEntities : WorldContains(world_entities, e)
    /\ \A e1 \in StoredEntities, e2 \in StoredEntities :
           e1.index = e2.index => e1 = e2
    /\ \A e \in StoredEntities, s \in DOMAIN components :
           SparseContainsIndex(components[s], e.index) = SparseContains(components[s], e)

\* index 0 is in use under its second generation and stored in a set that
\* another set's entity of index 1 is not in
C35_Witness ==
    /\ EntityNew(0, 2) \in StoredEntities
    /\ EntityNew(1, 1) \in StoredEntities
    /\ \E s \in DOMAIN components :
           /\ SparseContains(components[s], EntityNew(0, 2))
           /\ ~SparseContainsIndex(components[s], 1)

----------------------------------------------------------------------------
(* C36: which borrows of systems conflict *)

\* what a borrow names: a component type, a resource, or nothing
BorrowClass(b) ==
    IF b.kind \in {"Comp", "CompMut"} THEN "component"
    ELSE IF b.kind \in {"Res", "ResMut"} THEN "resource" ELSE "entities"

BorrowIsMutable(b) == b.kind \in {"CompMut", "ResMut"}

\* C36: conflicts_with is symmetric, and two borrows conflict exactly when
\* they name the same component type or the same resource and at least one
\* of them is mutable: two shared borrows of one asset, borrows of different
\* assets, a component borrow against a resource borrow, and Entities
\* against anything never conflict
C36_ConflictIffSameAssetOneMutable ==
    last.op = "conflicts_with" =>
        LET self == Unwrap(last.entity)[1]
            other == Unwrap(last.entity)[2]
            r == last.carried
        IN  /\ r \in BOOLEAN
            /\ r = SystemBorrowConflictsWith(other, self)
            /\ r <=> /\ BorrowClass(self) = BorrowClass(other)
                     /\ BorrowClass(self) # "entities"
                     /\ self.asset = other.asset
                     /\ BorrowIsMutable(self) \/ BorrowIsMutable(other)
            /\ (~BorrowIsMutable(self) /\ ~BorrowIsMutable(other)) => ~r
            /\ self.asset # other.asset => ~r
            /\ BorrowClass(self) # BorrowClass(other) => ~r
            /\ (self.kind = "Entities" \/ other.kind = "Entities") => ~r

\* a shared borrow of A was set against a mutable borrow of A and found in
\* conflict
C36_Witness ==
    /\ last.op = "conflicts_with"
    /\ Unwrap(last.entity) = <<[kind |-> "Comp", asset |-> Some("A")],
                               [kind |-> "CompMut", asset |-> Some("A")]>>
    /\ last.carried = TRUE

----------------------------------------------------------------------------
(* C37: extend against one create per tuple *)

\* World::create called once for each index of `indexes` from the k-th on, in
\* order: [entities, components, groups, ret], ret the entities created
RECURSIVE CreateFrom(_, _, _, _, _, _, _)
CreateFrom(md, acc, indexes, tuple, value, t, k) ==
    IF k > Len(indexes)
    THEN acc
    ELSE LET c == EntityStorageCreate(acc.entities, indexes[k])
             r == WorldAppend(c.entities, md, acc.components, acc.groups,
                              c.ret, tuple, value, t)
         IN  CreateFrom(md,
                 [entities |-> c.entities, components |-> r.components,
                  groups |-> r.groups, ret |-> Append(acc.ret, c.ret)],
                 indexes, tuple, value, t, k + 1)

\* C37: extend over a sequence of tuples, which inserts them all and groups
\* the new entities afterwards, returns exactly the newly created entities
\* in the order of their creation, and leaves the allocator, the components
\* each entity carries and every group's len as one create per tuple in the
\* same order leaves them, with the sparse-set and group invariants holding
C37_ExtendAsCreateEach ==
    /\ \A indexes \in FreeIndexSeqs(world_entities), tuple \in RegisteredTuples,
          value \in Values :
           LET ext == WorldExtend(world_entities, metadata, components, groups,
                                  indexes, tuple, value, tick)
               seq == CreateFrom(metadata,
                                 [entities |-> world_entities, components |-> components,
                                  groups |-> groups, ret |-> << >>],
                                 indexes, tuple, value, tick, 1)
           IN  /\ ext.ret = seq.ret
               /\ Len(ext.ret) = Len(indexes)
               /\ \A k \in DOMAIN indexes :
                      /\ ext.ret[k].index = indexes[k]
                      /\ ~WorldContains(world_entities, ext.ret[k])
                      /\ WorldContains(ext.entities, ext.ret[k])
               /\ ext.entities = seq.entities
               /\ \A s \in DOMAIN components, e \in Entities :
                      SparseContains(ext.components[s], e) =
                          SparseContains(seq.components[s], e)
               /\ DOMAIN ext.groups = DOMAIN seq.groups
               /\ \A g \in DOMAIN groups : ext.groups[g].len = seq.groups[g].len
               /\ SparseSetsConsistentIn(ext.components)
               /\ GroupsExactIn(ext.components, ext.groups)
    /\ last.op = "extend" =>
           /\ SparseSetsConsistentIn(components)
           /\ GroupsExactIn(components, groups)

\* after an extend two entities are live: both are in the outer group, and
\* the one that was there before the extend is in the inner group as well
C37_Witness ==
    /\ last.op = "extend"
    /\ groups[0].len = 2
    /\ groups[1].len = 1
    /\ \E e \in Entities :
           /\ WorldContains(world_entities, e)
           /\ e # Unwrap(last.entity)

----------------------------------------------------------------------------
(* C38: the world after clear *)

----------------------------------------------------------------------------
(* C39: SparseIter::next terminates *)

\* a call of next() is inside its loop
InNext == Iterating /\ last.carried.pc = "loop"

\* a call of next() has returned
NextReturned == Iterating /\ last.carried.pc = "returned"

\* the cursor is inside the slice or at its end, and the entities returned
\* so far are the items of the slice before the cursor, once each and in
\* the order of the slice
CursorInSlice ==
    Iterating =>
        LET it == last.carried
            entities == IterEntities(it)
            items == SparseIter(metadata, components, it.query)
        IN  /\ it.index \in 0..VecLen(entities)
            /\ Len(it.yielded) <= it.index
            /\ Len(it.yielded) <= Len(items)
            /\ \A k \in DOMAIN it.yielded : it.yielded[k] = items[k].entity
            /\ \A j \in DOMAIN it.yielded, k \in DOMAIN it.yielded :
                   j # k => it.yielded[j] # it.yielded[k]
            /\ it.exhausted => /\ it.index = VecLen(entities)
                               /\ Len(it.yielded) = Len(items)
            /\ NextReturned =>
                   /\ IsSome(last.entity) =>
                          /\ it.index >= 1
                          /\ Unwrap(last.entity) = entities[it.index - 1]
                          /\ Unwrap(last.entity) = it.yielded[Len(it.yielded)]
                   /\ last.entity = None <=> it.exhausted

\* a pass through the loop moves the cursor on by one, or finds the slice
\* used up and returns None; after that every call returns None
LoopStepAdvances ==
    (InNext /\ last' # last) =>
        LET it == last.carried
            after == last'.carried
        IN  /\ last'.op = "sparse_iter"
            /\ after.pc \in {"loop", "returned"}
            /\ \/ after.index = it.index + 1 /\ it.index < VecLen(IterEntities(it))
               \/ /\ after.index = it.index
                  /\ it.index = VecLen(IterEntities(it))
                  /\ after.pc = "returned"
                  /\ last'.entity = None
            /\ it.exhausted => (after.pc = "returned" /\ last'.entity = None)

\* C39: next always terminates: a call that has entered its loop returns;
\* each pass through the loop moves the cursor over the chosen entity slice
\* on by one; at most one item is returned for each entity of the slice;
\* None is returned once the slice is used up, and every later call returns
\* None again
C39_NextTerminates ==
    /\ []CursorInSlice
    /\ [][LoopStepAdvances]_vars
    /\ InNext ~> NextReturned

\* next() has returned None: it went over a slice of two entities and
\* returned an item for one of them only
C39_Witness ==
    /\ NextReturned
    /\ last.carried.exhausted
    /\ last.entity = None
    /\ VecLen(IterEntities(last.carried)) = 2
    /\ Len(last.carried.yielded) = 1

====
